---- MODULE Spec2Model ----
(***************************************************************************)
(* A model of the legal-document pseudonymization pipeline of              *)
(* src/pseudonymscript.py.                                                 *)
(*                                                                         *)
(* Texts.  A document is a sequence of tokens.  A token is one surface     *)
(* phrase of the document ("3 May 2021", "Carlos Rivera (Defendant)",      *)
(* "Orion Holdings Ltd", "USD 450,000", ...) kept as a record of the parts *)
(* the code's regular expressions and parsers read from it.  Offsets       *)
(* (Entity.start, Entity.end) count tokens; Entity.text is the             *)
(* sub-sequence text[start:end].  A replacement string is a sequence of    *)
(* tokens as well, usually of a length different from the original's.      *)
(* A document is [toks, gap]: its phrases stand gap characters of running  *)
(* text apart, text in which no extractor pattern matches and which lets   *)
(* every pattern match a phrase exactly.  Addresses are normalised         *)
(* character by character (see the address section); SHA-256 digests are   *)
(* the real digests of the strings hashed.                                 *)
(*                                                                         *)
(* Collaborators.  The spaCy model is a black box: its answer to a text is *)
(* any list of labelled phrases (NerAnswers).  Any extractor may raise.    *)
(* The random module is a tape of draws, rng = [tape, pos]; a draw not yet *)
(* on the tape may be any value of Raw, and seeding the generator as before*)
(* puts pos back to 0 on the same tape.                                    *)
(*                                                                         *)
(* Specifications.  Spec: runs of pseudonymize_text, each on a pipeline    *)
(* object of its own, a run possibly repeated under the same seed.         *)
(* SpecReuse: one pipeline object given several documents.  SpecOverlap:   *)
(* _remove_overlaps on any list of candidate spans.  SpecAddr, SpecMoney,  *)
(* SpecOrg: one AddressPseudonymizer, MoneyPseudonymizer or                *)
(* OrganizationPseudonymizer given several texts.  SpecConstruct: pipeline *)
(* objects constructed under any set of installed spaCy models, then used. *)
(***************************************************************************)
EXTENDS Integers, Sequences, FiniteSets, TLC

VARIABLES
    replacement_cache,      \* label -> (original text -> replacement), one cache per pseudonymizer
    counter,                \* OrganizationPseudonymizer.counter
    date_mapping,           \* DatePseudonymizer.date_mapping: ordinal -> ordinal
    name_to_role_registry,  \* LegalPersonPseudonymizer.name_to_role_registry
    role_counters,          \* LegalPersonPseudonymizer.role_counters
    current_entity,         \* LegalPersonPseudonymizer._current_entity (<<>> while unset)
    rng,                    \* the random module's generator: [tape, pos]
    pc,                     \* position of the pipeline in the current call
    text,                   \* the argument of the current pseudonymize call
    all_entities,           \* the local all_entities of pseudonymize
    result,                 \* the returned (text, mapping), [text, mapping]
    calls,                  \* pseudonymize calls made on this pipeline object
    env,                    \* what the collaborators did in this call: NER answer, failures
    prev,                   \* the previous completed pseudonymize_text run
    ov,                     \* overlap resolver alone: [in, out]
    addr,                   \* address pseudonymizer alone: [text, norm, code]
    randomized,             \* NumberRandomizer alone: [value, small, out], the last value
                            \* given (in thousandths), preserve_small, and the result (in
                            \* millionths); <<>> before the first
    written,                \* _number_to_written alone: [amount, words], <<>> before it is
                            \* applied
    asked,                  \* organization pseudonymizer alone: [first, again], the texts
                            \* given to it in the order they were first given, and whether
                            \* the last one had been given before
    nlp                     \* PseudonymizationPipeline.nlp: [installed, model], the spaCy
                            \* models installed when the object was constructed and the
                            \* one loaded ("" when none was)

vars == <<replacement_cache, counter, date_mapping, name_to_role_registry, role_counters,
          current_entity, rng, pc, text, all_entities, result, calls, env, prev, ov, addr,
          asked, randomized, written, nlp>>

pipeVars == <<replacement_cache, counter, date_mapping, name_to_role_registry, role_counters,
              current_entity, nlp>>
callVars == <<pc, text, all_entities, result, calls, env>>

-----------------------------------------------------------------------------
(* Bounds *)

\* longest document, in tokens
MaxDocLen == 2
\* pseudonymize calls on one pipeline object
MaxCalls == 2
\* raw values a random draw ranges over are 0..RawMax
RawMax == 2
\* extractors that may raise in one call
MaxFail == 1
\* spans the NER model may return for one document
MaxNer == 2
\* the overlap resolver alone: candidate lists of up to MaxCands spans over MaxPos characters
MaxCands == 3
MaxPos == 3
\* the address pseudonymizer alone: addresses given to one pseudonymizer
MaxAddr == 2
\* the money pseudonymizer alone: texts given to one pseudonymizer
MaxMoney == 2
\* the organization pseudonymizer alone: "Org1 Ltd" .. "Org<MaxOrgs> Ltd" given to one
\* pseudonymizer, other organization texts among the first MaxMixed
MaxOrgs == 28
\* the number pseudonymizer alone: texts given to one pseudonymizer
MaxNumbers == 1
\* _number_to_written alone: every amount up to MaxWritten is written
MaxWritten == 120
\* the date pseudonymizer alone: DATE spans of one prepare, and texts then asked for
MaxDates == 2
\* the legal person pseudonymizer alone: mentions in the document
MaxMentions == 2
MaxMixed == 3

-----------------------------------------------------------------------------
(* Small helpers *)

Range(f) == {f[i] : i \in DOMAIN f}

SeqsUpTo(S, n) == UNION {[1..k -> S] : k \in 0..n}

RECURSIVE Concat(_)
Concat(ss) == IF ss = <<>> THEN <<>> ELSE Head(ss) \o Concat(Tail(ss))

\* a Python dict as a function; d[k] = v
DictSet(d, k, v) == [x \in (DOMAIN d) \cup {k} |-> IF x = k THEN v ELSE d[x]]

EmptyDict == <<>>

-----------------------------------------------------------------------------
(* Tokens *)

Tok(k, s, r, n1, n2, n3) == [k |-> k, s |-> s, r |-> r, n1 |-> n1, n2 |-> n2, n3 |-> n3]

\* a literal word of a replacement ("ORG", "Person", "[UNPARSEABLE DATE:" ...)
Lit(s) == Tok("lit", s, "", 0, 0, 0)
\* a pseudonym letter, chr(ord("A") + i)
Letter(i) == Tok("letter", "", "", i, 0, 0)
\* a date as written: style s, zero padding r of the day, the three fields in textual order
DateTok(s, r, a, b, c) == Tok("date", s, r, a, b, c)
\* a bare personal name
NameTok(s) == Tok("name", s, "", 0, 0, 0)
\* "Name (Role)": the name and the text between the parentheses
QualTok(name, role) == Tok("qual", name, role, 0, 0, 0)
\* "<role> <name>": the role word as written, then the name
RoleNameTok(role, name) == Tok("rolename", name, role, 0, 0, 0)
\* "<name> <suffix>" of a company
OrgTok(name, suffix) == Tok("org", name, suffix, 0, 0, 0)
\* a number as written, of the shape r: "percent" is "<number>%", "ratio" is "<a>:<b>",
\* "fraction" is "<a>/<b>", "unit" is "<number> <unit>", "comma" is a number with commas
\* between its thousands, "decimal" a number with a decimal point, "integer" digits only;
\* a is the number without its decimal point and b the number of its decimal places; in a
\* ratio and a fraction a and b are the two numbers
NumTok(shape, unit, a, b) == Tok("num", unit, shape, a, b, 0)
\* a money amount of the form r: "code" is "<CODE> <amount>", "full" is
\* "<CODE> <amount> (<amount in words> <Currency>)", "symbol" is "<$><amount>", "written" is
\* "<amount> <currency word>"; s is the code, symbol or word as written; units, cents (-1:
\* no decimals), number of digits in the amount (0: the amount is commas only)
MoneyTok(form, code, units, cents, digits) == Tok("money", code, form, units, cents, digits)

-----------------------------------------------------------------------------
(* datetime.date: the proleptic Gregorian calendar, dates as ordinals *)

DaysInMonth(y, m) ==
    IF m = 2 THEN (IF (y % 4 = 0) /\ ((y % 100 # 0) \/ (y % 400 = 0)) THEN 29 ELSE 28)
    ELSE IF m \in {4, 6, 9, 11} THEN 30 ELSE 31

DaysBeforeYear(y) == (y - 1) * 365 + (y - 1) \div 4 - (y - 1) \div 100 + (y - 1) \div 400

RECURSIVE DaysBeforeMonth(_, _)
DaysBeforeMonth(y, m) == IF m = 1 THEN 0 ELSE DaysBeforeMonth(y, m - 1) + DaysInMonth(y, m - 1)

ToOrdinal(y, m, d) == DaysBeforeYear(y) + DaysBeforeMonth(y, m) + d

\* date.fromordinal: [y, m, d]
FromOrdinal(n) ==
    LET n0   == n - 1
        n400 == n0 \div 146097
        r400 == n0 % 146097
        n100 == r400 \div 36524
        r100 == r400 % 36524
        n4   == r100 \div 1461
        r4   == r100 % 1461
        n1   == r4 \div 365
        r1   == r4 % 365
        y0   == n400 * 400 + n100 * 100 + n4 * 4 + n1 + 1
    IN  IF n1 = 4 \/ n100 = 4
        THEN [y |-> y0 - 1, m |-> 12, d |-> 31]
        ELSE LET mm == CHOOSE m \in 1..12 :
                          /\ DaysBeforeMonth(y0, m) <= r1
                          /\ r1 < DaysBeforeMonth(y0, m) + DaysInMonth(y0, m)
             IN  [y |-> y0, m |-> mm, d |-> r1 - DaysBeforeMonth(y0, mm) + 1]

\* datetime.date(2010, 1, 1)
base_date == ToOrdinal(2010, 1, 1)

-----------------------------------------------------------------------------
(* The random module: a generator is a tape of raw draws and a position.   *)
(* Seeding fixes the tape; the cells of a tape are filled in when they are *)
(* first drawn, so a generator seeded as an earlier one replays its draws. *)

Raw == 0..RawMax

\* the raw value of the next draw
RngPeek(g) == g.tape[g.pos + 1]
RngAdvance(g) == [g EXCEPT !.pos = @ + 1]

\* random.randint(lo, hi)
\* a faulty variant: a generator that seeding does not reset
randint_unseeded(lo, hi, raw) ==
    lo + (((raw + (IF prev = <<>> THEN 0 ELSE 1)) % (RawMax + 1)) * (hi - lo)) \div RawMax

randint(lo, hi, raw) == lo + (raw * (hi - lo)) \div RawMax

\* random.uniform(0.85, 1.15), in thousandths
uniform_milli(raw) == 850 + (raw * 300) \div RawMax

-----------------------------------------------------------------------------
(* Entities *)

\* Entity(start, end, label, text); a PersonEntity carries person = TRUE and a role
Entity(start, end, label, txt) ==
    [start |-> start, end |-> end, label |-> label, text |-> txt, person |-> FALSE, role |-> ""]

PersonEntity(start, end, txt, role) ==
    [start |-> start, end |-> end, label |-> "LEGAL_PERSON", text |-> txt, person |-> TRUE,
     role |-> role]

\* sorted(entities, key=lambda e: e.start): a stable insertion sort
RECURSIVE InsertByStart(_, _)
InsertByStart(e, sorted) ==
    IF sorted = <<>> THEN <<e>>
    ELSE IF e.start < Head(sorted).start THEN <<e>> \o sorted
    ELSE <<Head(sorted)>> \o InsertByStart(e, Tail(sorted))

RECURSIVE SortedByStart(_)
SortedByStart(es) ==
    IF es = <<>> THEN <<>>
    ELSE InsertByStart(es[Len(es)], SortedByStart(SubSeq(es, 1, Len(es) - 1)))

\* a faulty variant: the spans are taken from left to right
SortedAscending(es) == SortedByStart(es)
\* sorted(entities, key=lambda e: e.start, reverse=True): stable, ties keep their order
RECURSIVE InsertByStartDesc(_, _)
InsertByStartDesc(e, sorted) ==
    IF sorted = <<>> THEN <<e>>
    ELSE IF e.start > Head(sorted).start THEN <<e>> \o sorted
    ELSE <<Head(sorted)>> \o InsertByStartDesc(e, Tail(sorted))

RECURSIVE SortedByStartDesc(_)
SortedByStartDesc(es) ==
    IF es = <<>> THEN <<>>
    ELSE InsertByStartDesc(es[Len(es)], SortedByStartDesc(SubSeq(es, 1, Len(es) - 1)))

-----------------------------------------------------------------------------
(* DatePseudonymizer *)

FullMonthStyles == {"d B Y", "B d Y", "B d, Y"}
AbbrMonthStyles == {"d b Y", "b d Y", "b d, Y"}

\* DatePseudonymizer.date_formats, in the order they are tried: the shape of the
\* text a format matches and the positions of its day, month and year fields
date_formats ==
    << [shape |-> "d B Y",  d |-> 1, m |-> 2, y |-> 3],
       [shape |-> "B d Y",  d |-> 2, m |-> 1, y |-> 3],
       [shape |-> "B d, Y", d |-> 2, m |-> 1, y |-> 3],
       [shape |-> "d b Y",  d |-> 1, m |-> 2, y |-> 3],
       [shape |-> "b d Y",  d |-> 2, m |-> 1, y |-> 3],
       [shape |-> "b d, Y", d |-> 2, m |-> 1, y |-> 3],
       [shape |-> "n-n-n",  d |-> 3, m |-> 2, y |-> 1],
       [shape |-> "n/n/n",  d |-> 1, m |-> 2, y |-> 3],
       [shape |-> "n/n/n",  d |-> 2, m |-> 1, y |-> 3],
       [shape |-> "n-n-n",  d |-> 1, m |-> 2, y |-> 3],
       [shape |-> "n-n-n",  d |-> 2, m |-> 1, y |-> 3] >>

Field(tok, i) == IF i = 1 THEN tok.n1 ELSE IF i = 2 THEN tok.n2 ELSE tok.n3

\* datetime.datetime.strptime(date_str, date_format).date(): the ordinal, or 0 for ValueError.
\* %Y takes four digits, %d and %m one or two; "May" is a full and an abbreviated name.
strptime(tok, f) ==
    LET d == Field(tok, f.d)
        m == Field(tok, f.m)
        y == Field(tok, f.y)
        shapeOk == \/ tok.s = f.shape
                   \/ /\ m = 5
                      /\ <<tok.s, f.shape>> \in {<<"d B Y", "d b Y">>, <<"B d Y", "b d Y">>,
                                                 <<"B d, Y", "b d, Y">>}
    IN  IF tok.k = "date" /\ shapeOk /\ y \in 1..9999 /\ d \in 1..31 /\ m \in 1..12
           /\ d <= DaysInMonth(y, m)
        THEN ToOrdinal(y, m, d)
        ELSE 0

RECURSIVE ParseFrom(_, _)
ParseFrom(tok, i) ==
    IF i > Len(date_formats) THEN 0
    ELSE IF strptime(tok, date_formats[i]) # 0 THEN strptime(tok, date_formats[i])
    ELSE ParseFrom(tok, i + 1)

\* DatePseudonymizer._parse_date: the ordinal of the date, 0 for None
parse_date(date_str) == IF Len(date_str) = 1 THEN ParseFrom(date_str[1], 1) ELSE 0

\* date_obj.strftime(format) for the formats the code writes: "%d %B %Y", "%d %b %Y"
\* ("May" is the full name as well), "%Y-%m-%d", "%d-%m-%Y" and "%d/%m/%Y"
strftime(n, format) ==
    LET c == FromOrdinal(n)
        pad_d == IF c.d < 10 THEN "0" ELSE ""
        pad_n == IF c.d < 10 \/ c.m < 10 THEN "0" ELSE ""
    IN  CASE format = "%d %B %Y" -> DateTok("d B Y", pad_d, c.d, c.m, c.y)
          [] format = "%d %b %Y" ->
                DateTok(IF c.m = 5 THEN "d B Y" ELSE "d b Y", pad_d, c.d, c.m, c.y)
          [] format = "%Y-%m-%d" -> DateTok("n-n-n", pad_n, c.y, c.m, c.d)
          [] format = "%d-%m-%Y" -> DateTok("n-n-n", pad_n, c.d, c.m, c.y)
          [] format = "%d/%m/%Y" -> DateTok("n/n/n", pad_n, c.d, c.m, c.y)

\* DatePseudonymizer._format_date_like_original
format_date_like_original(date_obj, original_str) ==
    LET tok == original_str[1]
    IN  IF tok.s \in FullMonthStyles THEN <<strftime(date_obj, "%d %B %Y")>>
        ELSE IF tok.s \in AbbrMonthStyles THEN <<strftime(date_obj, "%d %b %Y")>>
        ELSE IF tok.s = "n-n-n"
             THEN IF tok.n1 \in 1900..2099 \/ tok.n1 \in {19, 20}
                  THEN <<strftime(date_obj, "%Y-%m-%d")>>
                  ELSE <<strftime(date_obj, "%d-%m-%Y")>>
        ELSE IF tok.s = "n/n/n" THEN <<strftime(date_obj, "%d/%m/%Y")>>
        ELSE <<strftime(date_obj, "%d %B %Y")>>

\* a faulty variant: the unparseable dates take part as the date None
ParsedDatesWithNone(date_entities) ==
    {parse_date(date_entities[i].text) : i \in DOMAIN date_entities}

\* the parsed dates of the DATE entities, unparseable ones left out
ParsedDates(date_entities) ==
    {parse_date(date_entities[i].text) : i \in DOMAIN date_entities} \ {0}

SetMin(S) == CHOOSE x \in S : \A y \in S : x <= y

\* DatePseudonymizer._create_single_date_mapping
create_single_date_mapping(original_date, raw) ==
    (original_date :> (base_date + randint(-7300, 7300, raw)))

\* a faulty variant: every date is shifted by a draw of its own, here by its rank
create_shift_per_date(unique_dates, raw) ==
    [original_date \in unique_dates |->
        base_date + randint(-7300, 7300, raw) + 2 * (original_date - SetMin(unique_dates))]

\* a faulty variant: the offsets from the earliest date are counted backwards
create_mirrored_mapping(unique_dates, raw) ==
    [original_date \in unique_dates |->
        base_date + randint(-7300, 7300, raw) - (original_date - SetMin(unique_dates))]
\* DatePseudonymizer._create_interval_preserving_mapping
create_interval_preserving_mapping(unique_dates, raw) ==
    LET earliest_date  == SetMin(unique_dates)
        new_start_date == base_date + randint(-7300, 7300, raw)
    IN  [original_date \in unique_dates |-> new_start_date + (original_date - earliest_date)]

\* DatePseudonymizer.prepare on the pseudonymizer state P
DatePrepare(P, all_entities_) ==
    LET date_entities == SelectSeq(all_entities_, LAMBDA e : e.label = "DATE")
        unique_dates  == ParsedDates(date_entities)
    IN  IF date_entities = <<>> \/ unique_dates = {}
        THEN [P EXCEPT !.date_mapping = EmptyDict]
        ELSE [P EXCEPT
                !.date_mapping =
                    IF Cardinality(unique_dates) = 1
                    THEN create_single_date_mapping(SetMin(unique_dates), RngPeek(P.rng))
                    ELSE create_interval_preserving_mapping(unique_dates, RngPeek(P.rng)),
                !.rng = RngAdvance(P.rng)]

\* DatePseudonymizer.pseudonymize
DatePseudonymize(P, original_text) ==
    LET parsed_date == parse_date(original_text)
    IN  IF parsed_date # 0 /\ parsed_date \in DOMAIN P.date_mapping
        THEN format_date_like_original(P.date_mapping[parsed_date], original_text)
        ELSE <<Lit("[UNPARSEABLE DATE:")>> \o original_text \o <<Lit("]")>>

-----------------------------------------------------------------------------
(* Strings of the tokens that are hashed, and hashlib.sha256 on the strings *)
(* the model hashes: the value is int(hexdigest()[:2], 16) of the real      *)
(* digest.                                                                  *)

\* the surface string of a one-token text: a name, "Name (Role)" or "Role Name"
Str(txt) ==
    IF txt[1].k = "qual" THEN txt[1].s \o " (" \o txt[1].r \o ")"
    ELSE IF txt[1].k = "rolename" THEN txt[1].r \o " " \o txt[1].s
    ELSE txt[1].s

\* str.lower() on the names of the model
Lower(s) ==
    CASE s = "Carlos Rivera" -> "carlos rivera"
      [] s = "Defendant" -> "defendant"
      [] s = "\"Defendant\"" -> "\"defendant\""
      [] s = "Plaintiff" -> "plaintiff"
      [] s = "Counsel" -> "counsel"
      [] s = "Person" -> "person"
      [] s = "Dollars" -> "dollars"
      [] s = "Carlos Rivera (Defendant)" -> "carlos rivera (defendant)"
      [] s \in {"Defendant Carlos Rivera", "defendant Carlos Rivera"} -> "defendant carlos rivera"
      [] s \in {"Plaintiff Carlos Rivera", "plaintiff Carlos Rivera"} -> "plaintiff carlos rivera"
      [] s = "AG" -> "ag"
      [] s = "B.V." -> "b.v."
      [] s = "Co" -> "co"
      [] s = "Company" -> "company"
      [] s = "Corp" -> "corp"
      [] s = "Corporation" -> "corporation"
      [] s = "GmbH" -> "gmbh"
      [] s = "Group" -> "group"
      [] s = "Holdings" -> "holdings"
      [] s = "Inc" -> "inc"
      [] s = "Incorporated" -> "incorporated"
      [] s = "L.L.C." -> "l.l.c."
      [] s = "L.L.P." -> "l.l.p."
      [] s = "L.P." -> "l.p."
      [] s = "LLC" -> "llc"
      [] s = "LLP" -> "llp"
      [] s = "LP" -> "lp"
      [] s = "Limited" -> "limited"
      [] s = "Ltd" -> "ltd"
      [] s = "N.V." -> "n.v."
      [] s = "PLC" -> "plc"
      [] s = "PLLC" -> "pllc"
      [] s = "PTE LTD" -> "pte ltd"
      [] s = "Private Limited" -> "private limited"
      [] s = "Pte Ltd" -> "pte ltd"
      [] s = "Pty Limited" -> "pty limited"
      [] s = "Pty Ltd" -> "pty ltd"
      [] s = "Pvt Ltd" -> "pvt ltd"
      [] s = "S.A." -> "s.a."
      [] s = "SARL" -> "sarl"
      [] s = "SAS" -> "sas"
      [] s = "Trust" -> "trust"
      [] s \in {"carlos rivera", "defendant", "\"defendant\"", "plaintiff", "counsel",
                "attorney", "person", "unknown", "dollars", "euros", "plc", "people", "shares",
                "years"} -> s

\* str.upper() on the currency codes of the model
Upper(s) ==
    CASE s = "usd" -> "USD"
      [] s \in {"USD", "EUR"} -> s

\* str.split() on the lowercased names of the model
Split(s) ==
    CASE s = "carlos rivera" -> <<"carlos", "rivera">>
      [] s = "carlos rivera (defendant)" -> <<"carlos", "rivera", "(defendant)">>
      [] s = "defendant carlos rivera" -> <<"defendant", "carlos", "rivera">>
      [] s = "plaintiff carlos rivera" -> <<"plaintiff", "carlos", "rivera">>

sha256_hex2(hash_input) ==
    CASE hash_input = "legal_persons_2024:carlos rivera:Defendant" -> 107
      [] hash_input = "legal_persons_2024:carlos rivera:Plaintiff" -> 21
      [] hash_input = "legal_persons_2024:carlos rivera:Counsel" -> 65
      [] hash_input = "legal_persons_2024:carlos rivera:Person" -> 222
      [] hash_input = "legal_persons_2024:defendant carlos rivera:Defendant" -> 241
      [] hash_input = "legal_persons_2024:plaintiff carlos rivera:Plaintiff" -> 222
      [] hash_input = "person_pseudonyms_2024:Carlos Rivera" -> 227
      [] hash_input = "building_pseudonyms_2024:Carlos Rivera" -> 206
      [] hash_input = "gpe_pseudonyms_2024:CITY:Carlos Rivera" -> 23

-----------------------------------------------------------------------------
(* OrganizationPseudonymizer *)

\* OrganizationPseudonymizer.corporate_suffixes
corporate_suffixes ==
    {"Pte Ltd", "Pvt Ltd", "Private Limited", "Ltd", "Limited", "LLP", "LLC", "PLLC", "LP",
     "L.P.", "L.L.C.", "L.L.P.", "Inc", "Incorporated", "Corp", "Corporation", "Co",
     "Company", "Holdings", "Group", "PLC", "plc", "AG", "GmbH", "S.A.", "SAS", "SARL",
     "B.V.", "N.V.", "Pty Ltd", "Pty Limited"}

\* OrganizationPseudonymizer._extract_corporate_suffix: what the text ends with, once the
\* punctuation at its end is cut off, when that is a suffix of the list in upper or lower
\* case; "" otherwise
extract_corporate_suffix(txt) ==
    LET cleaned_text == IF txt # <<>> /\ txt[Len(txt)].k = "punct"
                        THEN SubSeq(txt, 1, Len(txt) - 1) ELSE txt
    IN  IF /\ cleaned_text # <<>>
           /\ cleaned_text[Len(cleaned_text)].k = "org"
           /\ \E suffix \in corporate_suffixes :
                 Lower(cleaned_text[Len(cleaned_text)].r) = Lower(suffix)
        THEN cleaned_text[Len(cleaned_text)].r
        ELSE ""

\* a faulty variant: the letters go on after Z
OrganizationPseudonymizeNoWrap(P, original_text) ==
    [P   |-> [P EXCEPT !.counter = @ + 1],
     rep |-> IF extract_corporate_suffix(original_text) # ""
             THEN <<Lit("ORG"), Letter(P.counter), Lit(extract_corporate_suffix(original_text))>>
             ELSE <<Lit("ORG"), Letter(P.counter)>>,
     exc |-> FALSE]

\* OrganizationPseudonymizer.pseudonymize: [P, rep]
OrganizationPseudonymize(P, original_text) ==
    LET n      == P.counter + 1
        letter == Letter((n - 1) % 26)
        suffix == extract_corporate_suffix(original_text)
    IN  [P   |-> [P EXCEPT !.counter = n],
         rep |-> IF suffix # "" THEN <<Lit("ORG"), letter, Lit(suffix)>>
                 ELSE <<Lit("ORG"), letter>>,
         exc |-> FALSE]

-----------------------------------------------------------------------------
(* NumberRandomizer and NumberPseudonymizer *)

Pow10(p) == IF p = 0 THEN 1 ELSE IF p = 1 THEN 10 ELSE IF p = 2 THEN 100 ELSE IF p = 3 THEN 1000
            ELSE IF p = 4 THEN 10000 ELSE IF p = 5 THEN 100000 ELSE 1000000

\* round(num / den) to the nearest integer, ties to the even one, for num >= 0
RoundDiv(num, den) ==
    IF (2 * (num % den) > den) \/ (2 * (num % den) = den /\ (num \div den) % 2 = 1)
    THEN (num \div den) + 1 ELSE num \div den

\* what the generator gives next: below / 10 is where random.choice takes its element,
\* raw is the draw random.uniform reads
Draws == [below : 0..9, raw : Raw]

\* random.choice(seq)
choice(seq, below) == seq[((below * Len(seq)) \div 10) + 1]

\* a faulty variant: the small integer is taken from all of 1..10
randomize_number_any(value, preserve_small, d) ==
    IF preserve_small /\ 0 < value /\ value <= 10000
    THEN choice([x \in 1..10 |-> x], d.below) * 1000000
    ELSE value * uniform_milli(d.raw)

\* NumberRandomizer.randomize_number(value, preserve_small): value in thousandths, the
\* result in millionths
randomize_number(value, preserve_small, d) ==
    IF preserve_small /\ 0 < value /\ value <= 10000
    THEN choice(SelectSeq([x \in 1..10 |-> x], LAMBDA x : x # value \div 1000), d.below) * 1000000
    ELSE value * uniform_milli(d.raw)

\* f"{new_value:.{places}f}" and int(round(new_value)), as the digits without the point;
\* new_value = value * 1.0 is written as value is, whatever the float arithmetic
Rendered(new_value, places) == RoundDiv(new_value, Pow10(6 - places))

\* NumberPseudonymizer.pseudonymize and its handlers; d1, d2 the draws of the generator
NumberPseudonymize(original_text, d1, d2) ==
    LET tok   == original_text[1]
        value == tok.n1 * Pow10(3 - tok.n2)
    IN  CASE tok.r = "percent" ->
                <<NumTok("percent", "", Rendered(randomize_number(value, FALSE, d1), tok.n2), tok.n2)>>
          [] tok.r \in {"ratio", "fraction"} ->
                <<NumTok(tok.r, "", Rendered(randomize_number(tok.n1 * 1000, TRUE, d1), 0),
                         Rendered(randomize_number(tok.n2 * 1000, TRUE, d2), 0))>>
          [] tok.r = "unit" ->
                IF Lower(tok.s) \in {"years", "months", "weeks", "hours"}
                THEN <<NumTok("unit", tok.s, Rendered(randomize_number(value, FALSE, d1), 1), 1)>>
                ELSE <<NumTok("unit", tok.s, Rendered(randomize_number(value, FALSE, d1), 0), 0)>>
          [] tok.r = "comma" ->
                <<NumTok("comma", "", Rendered(randomize_number(value, FALSE, d1), 0), 0)>>
          [] tok.r = "decimal" ->
                <<NumTok("decimal", "", Rendered(randomize_number(value, FALSE, d1), tok.n2), tok.n2)>>
          [] tok.r = "integer" ->
                <<NumTok("integer", "", Rendered(randomize_number(value, TRUE, d1), 0), 0)>>

-----------------------------------------------------------------------------
(* MoneyPseudonymizer *)

\* int(round(x)) and the rounding of f"{x:,.2f}", for x = num / 1000
RoundDiv1000(num) ==
    LET q == num \div 1000
        r == num % 1000
    IN  IF r > 500 \/ (r = 500 /\ q % 2 = 1) THEN q + 1 ELSE q

RECURSIVE NumDigits(_)
NumDigits(n) == IF n < 10 THEN 1 ELSE 1 + NumDigits(n \div 10)

\* NumberRandomizer.randomize_number(value, preserve_small=False), value and result in units
\* of 1/1000 of the argument's unit: value * random.uniform(0.85, 1.15)
randomize_number_large(value, raw) == value * uniform_milli(raw)

\* the randomized amount as the handlers that keep the decimals format it, after the
\* currency s in the form of the handler: f"{new_amount:,.2f}" when the amount has
\* decimals, f"{int(round(new_amount)):,}" otherwise.
\* float(amount_str) raises ValueError when the amount holds no digit.
FormattedAmount(tok, raw, form, s) ==
    IF tok.n3 = 0 THEN [P |-> <<>>, rep |-> <<>>, exc |-> TRUE]
    ELSE IF tok.n2 >= 0
    THEN LET c == RoundDiv1000(randomize_number_large(tok.n1 * 100 + tok.n2, raw))
         IN  [P |-> <<>>, exc |-> FALSE,
              rep |-> <<MoneyTok(form, s, c \div 100, c % 100, NumDigits(c \div 100) + 2)>>]
    ELSE LET u == RoundDiv1000(randomize_number_large(tok.n1, raw))
         IN  [P |-> <<>>, exc |-> FALSE, rep |-> <<MoneyTok(form, s, u, -1, NumDigits(u))>>]

\* MoneyPseudonymizer._handle_full_format: int(round(new_amount)) whatever the decimals,
\* and the words in the parentheses written anew
handle_full_format(tok, raw) ==
    IF tok.n3 = 0 THEN [P |-> <<>>, rep |-> <<>>, exc |-> TRUE]
    ELSE LET \* new_amount in 1/den of the unit, and int(round(new_amount))
             den == IF tok.n2 >= 0 THEN 100000 ELSE 1000
             new_amount == IF tok.n2 >= 0
                           THEN randomize_number_large(tok.n1 * 100 + tok.n2, raw)
                           ELSE randomize_number_large(tok.n1, raw)
             q == new_amount \div den
             r == new_amount % den
             new_amount_int == IF 2 * r > den \/ (2 * r = den /\ q % 2 = 1) THEN q + 1 ELSE q
         IN  [P |-> <<>>, exc |-> FALSE,
              rep |-> <<MoneyTok("full", Upper(tok.s), new_amount_int, -1,
                                 NumDigits(new_amount_int))>>]

\* the lists ones and tens of MoneyPseudonymizer._convert_hundreds
ones ==
    <<"", "One", "Two", "Three", "Four", "Five", "Six", "Seven", "Eight", "Nine", "Ten",
      "Eleven", "Twelve", "Thirteen", "Fourteen", "Fifteen", "Sixteen", "Seventeen",
      "Eighteen", "Nineteen">>

tens == <<"", "", "Twenty", "Thirty", "Forty", "Fifty", "Sixty", "Seventy", "Eighty", "Ninety">>

\* MoneyPseudonymizer._convert_hundreds: the words of a number up to 999
RECURSIVE convert_hundreds(_)
convert_hundreds(n) ==
    IF n = 0 THEN <<>>
    ELSE IF n < 20 THEN <<ones[n + 1]>>
    ELSE IF n < 100
    THEN <<IF n % 10 # 0 THEN tens[(n \div 10) + 1] \o "-" \o ones[(n % 10) + 1]
           ELSE tens[(n \div 10) + 1]>>
    ELSE <<ones[(n \div 100) + 1], "Hundred">> \o convert_hundreds(n % 100)

\* MoneyPseudonymizer._number_to_written: the words of an amount
number_to_written(amount) ==
    IF amount = 0 THEN <<"Zero">>
    ELSE IF amount >= 1000000000
    THEN convert_hundreds(amount \div 1000000000) \o <<"Billion">>
         \o (IF amount % 1000000000 >= 1000000
             THEN convert_hundreds((amount % 1000000000) \div 1000000) \o <<"Million">>
             ELSE <<>>)
    ELSE IF amount >= 1000000
    THEN convert_hundreds(amount \div 1000000) \o <<"Million">>
         \o (IF amount % 1000000 >= 1000
             THEN convert_hundreds((amount % 1000000) \div 1000) \o <<"Thousand">>
             ELSE <<>>)
    ELSE IF amount >= 1000
    THEN convert_hundreds(amount \div 1000) \o <<"Thousand">> \o convert_hundreds(amount % 1000)
    ELSE convert_hundreds(amount)

\* MoneyPseudonymizer._handle_currency_code_format: "<CODE> <amount>"
handle_currency_code_format(tok, raw) == FormattedAmount(tok, raw, "code", Upper(tok.s))

\* MoneyPseudonymizer._handle_symbol_format: "<$><amount>"
handle_symbol_format(tok, raw) == FormattedAmount(tok, raw, "symbol", tok.s)

\* MoneyPseudonymizer._handle_written_format: "<amount> <currency word>"
handle_written_format(tok, raw) == FormattedAmount(tok, raw, "written", Lower(tok.s))

\* random.uniform was called once unless float() raised before
Drawn(P, h) == [h EXCEPT !.P = IF h.exc THEN P ELSE [P EXCEPT !.rng = RngAdvance(P.rng)]]

\* MoneyPseudonymizer.pseudonymize: [P, rep, exc]; the handlers are tried in the order
\* full, code, symbol, written, and a text is of the form of the first whose pattern it matches
MoneyPseudonymize(P, original_text) ==
    IF Len(original_text) = 1 /\ original_text[1].k = "money"
    THEN CASE original_text[1].r = "full" ->
                Drawn(P, handle_full_format(original_text[1], RngPeek(P.rng)))
           [] original_text[1].r = "code" ->
                Drawn(P, handle_currency_code_format(original_text[1], RngPeek(P.rng)))
           [] original_text[1].r = "symbol" ->
                Drawn(P, handle_symbol_format(original_text[1], RngPeek(P.rng)))
           [] original_text[1].r = "written" ->
                Drawn(P, handle_written_format(original_text[1], RngPeek(P.rng)))
    ELSE [P |-> P, rep |-> <<Lit("[REDACTED AMOUNT]")>>, exc |-> FALSE]

-----------------------------------------------------------------------------
(* CounterBasedPseudonymizer (PERSON, FAC) and GPEPseudonymizer, use_hash=True *)

\* CounterBasedPseudonymizer.pseudonymize
CounterBasedPseudonymize(prefix, salt, original_text) ==
    <<Lit(prefix), Letter(sha256_hex2(salt \o ":" \o Str(original_text)) % 26)>>

\* GPEPseudonymizer._load_countries, _load_states
countries ==
    {"Singapore", "Malaysia", "Thailand", "Indonesia", "Philippines", "Vietnam", "Myanmar",
     "Cambodia", "Laos", "Brunei", "China", "Japan", "South Korea", "Taiwan", "Hong Kong",
     "Macau", "India", "Pakistan", "Bangladesh", "Sri Lanka", "Nepal", "United States", "USA",
     "US", "United Kingdom", "UK", "Canada", "Australia", "New Zealand", "Germany", "France",
     "Italy", "Spain"}
states ==
    {"Delaware", "California", "New York", "Texas", "Florida", "Johor", "Selangor", "Penang",
     "Sabah", "Sarawak", "Jakarta", "West Java", "Bangkok", "Ontario", "Quebec"}

\* GPEPseudonymizer.pseudonymize
GPEPseudonymize(original_text) ==
    LET t        == Str(original_text)
        category == IF t \in countries THEN "COUNTRY" ELSE IF t \in states THEN "STATE" ELSE "CITY"
        prefix   == IF t \in countries THEN "Country" ELSE IF t \in states THEN "State" ELSE "City"
    IN  <<Lit(prefix),
          Letter(sha256_hex2("gpe_pseudonyms_2024:" \o category \o ":" \o t) % 26)>>

-----------------------------------------------------------------------------
(* LegalPersonPseudonymizer *)

\* an insertion-ordered dict as a sequence of <<key, value>> pairs
ODictHas(d, k) == \E i \in DOMAIN d : d[i][1] = k
ODictPut(d, k, v) ==
    IF ODictHas(d, k) THEN [i \in DOMAIN d |-> IF d[i][1] = k THEN <<k, v>> ELSE d[i]]
    ELSE Append(d, <<k, v>>)

\* LegalPersonPseudonymizer._normalize_role_for_pseudonym
normalize_role_for_pseudonym(role) ==
    LET role_clean == Lower(role)
    IN  CASE role_clean = "plaintiff" -> "Plaintiff"
          [] role_clean = "defendant" -> "Defendant"
          [] role_clean \in {"attorney", "lawyer", "counsel"} -> "Counsel"
          [] role_clean = "partner" -> "Partner"
          [] role_clean = "ceo" -> "CEO"
          [] role_clean = "president" -> "President"
          [] role_clean = "director" -> "Director"
          [] role_clean = "judge" -> "Judge"
          [] role_clean = "witness" -> "Witness"
          [] role_clean = "buyer" -> "Buyer"
          [] role_clean = "seller" -> "Seller"
          [] role_clean = "grantor" -> "Grantor"
          [] role_clean = "grantee" -> "Grantee"
          [] role_clean = "trustee" -> "Trustee"
          [] OTHER -> "Person"

\* LegalPersonPseudonymizer._generate_hash_based_pseudonym
generate_hash_based_pseudonym(name, role) ==
    LET role_normalized == normalize_role_for_pseudonym(role)
        name_normalized == Lower(name)
        hash_input      == "legal_persons_2024:" \o name_normalized \o ":" \o role_normalized
    IN  <<Lit(role_normalized), Letter(sha256_hex2(hash_input) % 26)>>

\* LegalPersonPseudonymizer._generate_counter_based_pseudonym: [P, rep]
generate_counter_based_pseudonym(P, role) ==
    LET role_normalized == normalize_role_for_pseudonym(role)
        n == (IF role_normalized \in DOMAIN P.role_counters
              THEN P.role_counters[role_normalized] ELSE 0) + 1
    IN  [P   |-> [P EXCEPT !.role_counters = DictSet(@, role_normalized, n)],
         rep |-> <<Lit(role_normalized), Letter((n - 1) % 26)>>,
         exc |-> FALSE]

\* the reduction the comments of _extract_name_from_entity_text describe: the role word
\* before the name is always cut off
extract_name_without_role(entity_text) ==
    IF entity_text # <<>> /\ entity_text[1].k \in {"qual", "name", "place", "rolename"}
    THEN entity_text[1].s
    ELSE ""

\* LegalPersonPseudonymizer._extract_name_from_entity_text: the name, "" for None.
\* "Name (Role)" and a bare name start with the capitalised name. The first pattern takes
\* the capitalised words the text starts with, and so the whole of "Role Name" when the
\* role word is capitalised (a role word of the model is, when str.lower changes it); the
\* second pattern takes the name after plaintiff, defendant or a title in any case.
extract_name_from_entity_text(entity_text) ==
    IF entity_text # <<>> /\ entity_text[1].k \in {"qual", "name", "place"}
    THEN entity_text[1].s
    ELSE IF entity_text # <<>> /\ entity_text[1].k = "rolename"
    THEN IF entity_text[1].r # Lower(entity_text[1].r) THEN Str(entity_text)
         ELSE IF entity_text[1].r \in {"plaintiff", "defendant", "dr", "mr", "mrs", "ms"}
         THEN entity_text[1].s
         ELSE ""
    ELSE ""

\* LegalPersonPseudonymizer._names_likely_same_person
names_likely_same_person(name1, name2) ==
    LET name1_parts == Split(name1)
        name2_parts == Split(name2)
        shorter == IF Len(name1_parts) <= Len(name2_parts) THEN name1_parts ELSE name2_parts
        longer  == IF Len(name1_parts) <= Len(name2_parts) THEN name2_parts ELSE name1_parts
    IN  \/ name1 = name2
        \/ /\ Len(name1_parts) >= 2 /\ Len(name2_parts) >= 2
           /\ name1_parts[1] = name2_parts[1]
           /\ name1_parts[Len(name1_parts)] = name2_parts[Len(name2_parts)]
        \/ /\ Len(name1_parts) >= 2 /\ Len(name2_parts) >= 2
           /\ \A i \in DOMAIN shorter : shorter[i] \in Range(longer)

\* LegalPersonPseudonymizer._find_matching_role: the role, "" for None
find_matching_role(registry, bare_name) ==
    LET bare_name_lower == Lower(bare_name)
        hits == {i \in DOMAIN registry :
                    \/ names_likely_same_person(bare_name_lower, registry[i][1])
                    \/ names_likely_same_person(registry[i][1], bare_name_lower)}
    IN  IF ODictHas(registry, bare_name_lower) THEN registry[CHOOSE i \in DOMAIN registry : registry[i][1] = bare_name_lower][2]
        ELSE IF hits # {} THEN registry[SetMin(hits)][2]
        ELSE ""

\* first pass of LegalPersonPseudonymizer.prepare: the registry of the names with a role
RECURSIVE RegisterRoles(_, _)
RegisterRoles(registry, legal_persons) ==
    IF legal_persons = <<>> THEN registry
    ELSE LET entity == Head(legal_persons)
             name   == extract_name_from_entity_text(entity.text)
         IN  RegisterRoles(IF entity.person /\ entity.role # "" /\ name # ""
                           THEN ODictPut(registry, Lower(name), entity.role)
                           ELSE registry,
                           Tail(legal_persons))

\* second pass of LegalPersonPseudonymizer.prepare: seed the cache for the bare persons
RECURSIVE SeedBarePersons(_, _, _)
SeedBarePersons(cache, registry, bare_persons) ==
    IF bare_persons = <<>> THEN cache
    ELSE LET entity == Head(bare_persons)
             matched_role == find_matching_role(registry, Str(entity.text))
         IN  SeedBarePersons(IF matched_role # ""
                             THEN DictSet(cache, entity.text,
                                          generate_hash_based_pseudonym(Str(entity.text), matched_role))
                             ELSE cache,
                             registry, Tail(bare_persons))

\* LegalPersonPseudonymizer.prepare
LegalPersonPrepare(P, all_entities_) ==
    LET legal_persons == SelectSeq(all_entities_, LAMBDA e : e.label = "LEGAL_PERSON")
        bare_persons  == SelectSeq(all_entities_, LAMBDA e : e.label = "PERSON")
        registry      == RegisterRoles(<<>>, legal_persons)
    IN  [P EXCEPT !.name_to_role_registry = registry,
                  !.replacement_cache["LEGAL_PERSON"] = SeedBarePersons(@, registry, bare_persons)]

\* LegalPersonPseudonymizer._parse_person_info: [name, role], empty strings for None
parse_person_info(txt) ==
    IF \E i \in DOMAIN txt : txt[i].k = "qual"
    THEN LET t == txt[CHOOSE i \in DOMAIN txt : txt[i].k = "qual"] IN [name |-> t.s, role |-> t.r]
    ELSE [name |-> "", role |-> ""]

\* LegalPersonPseudonymizer._generate_role_based_pseudonym (use_hash_consistency)
generate_role_based_pseudonym(person_info) ==
    generate_hash_based_pseudonym(IF person_info.name # "" THEN person_info.name ELSE "unknown",
                                  IF person_info.role # "" THEN person_info.role ELSE "person")

\* LegalPersonPseudonymizer._generate_role_based_pseudonym_from_entity (use_hash_consistency)
generate_role_based_pseudonym_from_entity(entity) ==
    LET role == IF entity.role # "" THEN entity.role ELSE "person"
        name == extract_name_from_entity_text(entity.text)
    IN  generate_hash_based_pseudonym(IF name # "" THEN name ELSE Str(entity.text), role)

\* LegalPersonPseudonymizer.pseudonymize: [P, rep, exc]
LegalPersonPseudonymize(P, original_text) ==
    LET person_info == parse_person_info(original_text)
    IN  IF person_info.role # ""
        THEN [P |-> P, rep |-> generate_role_based_pseudonym(person_info), exc |-> FALSE]
        ELSE generate_counter_based_pseudonym(P, "person")

-----------------------------------------------------------------------------
(* The pseudonymizers of a pipeline object and get_replacement *)

\* PseudonymizationPipeline._load_spacy_model under the default PseudonymConfig
models_to_try == <<"en_core_web_trf", "en_core_web_md", "en_core_web_sm">>

\* a faulty variant: the model asked for is taken as loaded, whether it is installed or not
load_unchecked(installed) == models_to_try[1]

\* the first of models_to_try that spacy.load loads; "" when none is and RuntimeError is raised
load_spacy_model(installed) ==
    IF \E i \in DOMAIN models_to_try : models_to_try[i] \in installed
    THEN models_to_try[SetMin({i \in DOMAIN models_to_try : models_to_try[i] \in installed})]
    ELSE ""

\* the keys of PseudonymizationPipeline.pseudonymizers, in the order of the dict
Labels == <<"DATE", "ORG", "MONEY", "NUMBER", "ADDRESS", "LEGAL_PERSON", "PERSON", "GPE", "FAC">>

\* PseudonymizationPipeline._initialize_pseudonymizers: every pseudonymizer as constructed
initialize_pseudonymizers(g) ==
    [replacement_cache     |-> [l \in Range(Labels) |-> EmptyDict],
     counter               |-> 0,
     date_mapping          |-> EmptyDict,
     name_to_role_registry |-> <<>>,
     role_counters         |-> EmptyDict,
     current_entity        |-> <<>>,
     rng                   |-> g]

\* the pseudonymize method of the pseudonymizer of a label: [P, rep, exc]
Pseudonymize(P, label, original_text) ==
    CASE label = "DATE" -> [P |-> P, rep |-> DatePseudonymize(P, original_text), exc |-> FALSE]
      [] label = "ORG" -> OrganizationPseudonymize(P, original_text)
      [] label = "MONEY" -> MoneyPseudonymize(P, original_text)
      [] label = "LEGAL_PERSON" -> LegalPersonPseudonymize(P, original_text)
      [] label = "PERSON" ->
            [P |-> P, exc |-> FALSE,
             rep |-> CounterBasedPseudonymize("Person", "person_pseudonyms_2024", original_text)]
      [] label = "FAC" ->
            [P |-> P, exc |-> FALSE,
             rep |-> CounterBasedPseudonymize("Building", "building_pseudonyms_2024", original_text)]
      [] label = "GPE" -> [P |-> P, rep |-> GPEPseudonymize(original_text), exc |-> FALSE]

\* self.replacement_cache[original_text] = <r>, unless r is an exception
Cached(r, label, original_text) ==
    IF r.exc THEN r
    ELSE [P   |-> [r.P EXCEPT !.replacement_cache[label] = DictSet(@, original_text, r.rep)],
          rep |-> r.rep,
          exc |-> FALSE]

\* a faulty variant: get_replacement without the look-up in the cache
GetReplacementUncached(P, label, original_text) ==
    Cached(Pseudonymize(P, label, original_text), label, original_text)
\* EntityPseudonymizer.get_replacement: [P, rep, exc]; exc when pseudonymize raised
BaseGetReplacement(P, label, original_text) ==
    IF original_text \in DOMAIN P.replacement_cache[label]
    THEN [P |-> P, rep |-> P.replacement_cache[label][original_text], exc |-> FALSE]
    ELSE Cached(Pseudonymize(P, label, original_text), label, original_text)

\* the fallback of LegalPersonPseudonymizer.get_replacement: the role of the name registry
FromRegistry(P, original_text, matched_role) ==
    IF matched_role # ""
    THEN [P |-> P, exc |-> FALSE,
          rep |-> generate_role_based_pseudonym([name |-> Str(original_text),
                                                 role |-> matched_role])]
    ELSE LegalPersonPseudonymize(P, original_text)

\* LegalPersonPseudonymizer.get_replacement
LegalPersonGetReplacement(P, original_text) ==
    LET cache == P.replacement_cache["LEGAL_PERSON"]
    IN  IF original_text \in DOMAIN cache
        THEN [P |-> P, rep |-> cache[original_text], exc |-> FALSE]
        ELSE Cached(IF P.current_entity # <<>>
                    THEN [P |-> P, exc |-> FALSE,
                          rep |-> generate_role_based_pseudonym_from_entity(P.current_entity[1])]
                    ELSE FromRegistry(P, original_text,
                                      find_matching_role(P.name_to_role_registry,
                                                         Str(original_text))),
                    "LEGAL_PERSON", original_text)

\* pseudonymizer.get_replacement(entity.text, entity.label) of the label's pseudonymizer
get_replacement(P, label, original_text) ==
    IF label = "LEGAL_PERSON" THEN LegalPersonGetReplacement(P, original_text)
    ELSE BaseGetReplacement(P, label, original_text)

-----------------------------------------------------------------------------
(* Character offsets: the tokens of a document are gap characters apart *)

\* len() of the surface string of a token
Width(tok) ==
    LET MonthNames == <<"January", "February", "March", "April", "May", "June", "July",
                        "August", "September", "October", "November", "December">>
    IN
    CASE tok.k = "qual" -> Len(tok.s) + Len(tok.r) + 3
      [] tok.k \in {"org", "rolename"} -> Len(tok.s) + Len(tok.r) + 1
      [] tok.k = "date" ->
            (IF tok.s \in FullMonthStyles THEN Len(MonthNames[IF tok.s = "d B Y" THEN tok.n2 ELSE tok.n1])
             ELSE IF tok.s \in AbbrMonthStyles THEN 3 ELSE 2) + 8
      [] tok.k = "money" -> Len(tok.s) + 1 + tok.n3 + (IF tok.n2 >= 0 THEN 1 ELSE 0)
      [] OTHER -> Len(tok.s)

RECURSIVE CharStart(_, _)
CharStart(doc, i) ==
    IF i = 1 THEN 0 ELSE CharStart(doc, i - 1) + Width(doc.toks[i - 1]) + doc.gap

CharEnd(doc, i) == CharStart(doc, i) + Width(doc.toks[i])

-----------------------------------------------------------------------------
(* The extractors, on tokens *)

\* DateExtractor.date_patterns: day month year, month day[,] year, day abbreviated-month year
DatePatternMatches(tok) ==
    /\ tok.k = "date"
    /\ tok.s \in {"d B Y", "B d Y", "B d, Y", "d b Y"}
    /\ Field(tok, 3) \in 0..9999
    /\ (IF tok.s \in {"d B Y", "d b Y"} THEN tok.n1 ELSE tok.n2) \in 0..99

\* DateExtractor.extract
DateExtract(doc) ==
    Concat([i \in DOMAIN doc.toks |->
                IF DatePatternMatches(doc.toks[i])
                THEN <<Entity(i - 1, i, "DATE", <<doc.toks[i]>>)>> ELSE <<>>])

\* OrganizationExtractor.extract: a company name ending in a corporate suffix
OrganizationExtract(doc) ==
    Concat([i \in DOMAIN doc.toks |->
                IF doc.toks[i].k = "org" /\ doc.toks[i].r # ""
                THEN <<Entity(i - 1, i, "ORG", <<doc.toks[i]>>)>> ELSE <<>>])

\* MoneyExtractor.extract: "<CODE> [\d,]+..." also matches an amount of commas only
MoneyExtract(doc) ==
    Concat([i \in DOMAIN doc.toks |->
                IF doc.toks[i].k = "money"
                THEN <<Entity(i - 1, i, "MONEY", <<doc.toks[i]>>)>> ELSE <<>>])

\* LegalPersonExtractor.legal_roles, those of the model's documents
legal_roles == {"plaintiff", "defendant", "counsel", "attorney", "partner", "witness"}

\* LegalPersonExtractor._looks_like_role: a known role occurs in the lowercased text
looks_like_role(role_text) ==
    \E role \in legal_roles : Lower(role_text) \in {role, "\"" \o role \o "\""}

\* LegalPersonExtractor._normalize_role
normalize_role(role) ==
    LET role_clean == Lower(role)
    IN  CASE role_clean \in {"atty", "counsel", "lawyer"} -> "attorney"
          [] role_clean = "mgr" -> "manager"
          [] role_clean = "mgmt" -> "management"
          [] role_clean \in {"chmn", "chrmn"} -> "chairman"
          [] role_clean = "pres" -> "president"
          [] role_clean \in {"v.p.", "vp"} -> "vice president"
          [] OTHER -> role_clean

\* LegalPersonExtractor.extract: pattern 1, "Name (Role)", and pattern 3, "Role Name"
LegalPersonExtract(doc) ==
    Concat([i \in DOMAIN doc.toks |->
                IF doc.toks[i].k \in {"qual", "rolename"} /\ looks_like_role(doc.toks[i].r)
                THEN <<PersonEntity(i - 1, i, <<doc.toks[i]>>, normalize_role(doc.toks[i].r))>>
                ELSE <<>>])

\* SpacyExtractor._is_valid_entity for PERSON: no legal indicator within context_window
\* characters of the entity
context_window == 50

\* the character ranges of the legal indicators of a document ("(", "defendant", ...)
IndicatorRanges(doc) ==
    UNION {IF doc.toks[i].k = "qual"
           THEN {<<CharStart(doc, i) + Len(doc.toks[i].s) + 1,
                   CharStart(doc, i) + Len(doc.toks[i].s) + 2>>,
                 <<CharStart(doc, i) + Len(doc.toks[i].s) + 2, CharEnd(doc, i) - 1>>}
           ELSE {} : i \in DOMAIN doc.toks}

HasLegalContext(doc, e) ==
    LET lo == CharStart(doc, e.start + 1) - context_window
        hi == CharEnd(doc, e.end) + context_window
    IN  \E r \in IndicatorRanges(doc) : lo <= r[1] /\ r[2] <= hi

is_valid_entity(doc, e) == ~(e.label = "PERSON" /\ HasLegalContext(doc, e))

\* SpacyExtractor.extract: the entities of the NER model's answer with a target label
\* that pass the filters, sorted by start
SpacyExtract(doc, ner) ==
    SortedByStart(SelectSeq(ner, LAMBDA e : /\ e.label \in {"PERSON", "GPE", "FAC", "ORG"}
                                            /\ is_valid_entity(doc, e)))

\* PseudonymizationPipeline._initialize_extractors under the default PseudonymConfig
Extractors == <<"DateExtractor", "OrganizationExtractor", "MoneyExtractor", "NumberExtractor",
                "AddressExtractor", "LegalPersonExtractor", "SpacyExtractor">>

\* extractor.extract(text); the documents of the model hold no number and no address
Extract(name, doc, ner) ==
    CASE name = "DateExtractor" -> DateExtract(doc)
      [] name = "OrganizationExtractor" -> OrganizationExtract(doc)
      [] name = "MoneyExtractor" -> MoneyExtract(doc)
      [] name = "LegalPersonExtractor" -> LegalPersonExtract(doc)
      [] name = "SpacyExtractor" -> SpacyExtract(doc, ner)
      [] OTHER -> <<>>

-----------------------------------------------------------------------------
(* PseudonymizationPipeline: the four steps of pseudonymize *)

\* a faulty variant: an extractor that raises loses what was collected before it
ExtractorStepLosing(collected, name, doc, ner, raises) ==
    IF raises THEN <<>> ELSE collected \o Extract(name, doc, ner)

\* one turn of the loop of _extract_all_entities: an extractor that raises adds nothing
ExtractorStep(collected, name, doc, ner, raises) ==
    IF raises THEN collected ELSE collected \o Extract(name, doc, ner)

\* len(entity.text)
TextLen(txt, gap) ==
    LET d == [toks |-> txt, gap |-> gap]
    IN  IF txt = <<>> THEN 0 ELSE CharEnd(d, Len(txt))

priority_order(label) ==
    CASE label = "LEGAL_PERSON" -> 1
      [] label = "PERSON" -> 2
      [] label = "ORG" -> 3
      [] label = "GPE" -> 4
      [] label = "FAC" -> 5
      [] label = "ADDRESS" -> 6
      [] label = "MONEY" -> 7
      [] label = "NUMBER" -> 8
      [] label = "DATE" -> 9
      [] OTHER -> 10

\* entity.start < accepted.end and entity.end > accepted.start
Overlap(a, b) == a.start < b.end /\ a.end > b.start

\* a faulty variant: every candidate is accepted
AcceptEach(res, entity, gap) == Append(res, entity)

\* a faulty variant: the longer text wins, whatever the labels are
ResolveOneByLength(res, entity, gap) ==
    LET hits == {i \in DOMAIN res : Overlap(entity, res[i])}
    IN  IF hits = {} THEN Append(res, entity)
        ELSE IF TextLen(entity.text, gap) > TextLen(res[SetMin(hits)].text, gap)
        THEN [res EXCEPT ![SetMin(hits)] = entity]
        ELSE res
\* the body of the loop of _remove_overlaps for one candidate
ResolveOne(res, entity, gap) ==
    LET hits == {i \in DOMAIN res : Overlap(entity, res[i])}
    IN  IF hits = {} THEN Append(res, entity)
        ELSE LET i        == SetMin(hits)
                 accepted == res[i]
                 entity_priority   == priority_order(entity.label)
                 accepted_priority == priority_order(accepted.label)
             IN  IF entity_priority < accepted_priority THEN [res EXCEPT ![i] = entity]
                 ELSE IF /\ entity_priority = accepted_priority
                         /\ TextLen(entity.text, gap) > TextLen(accepted.text, gap)
                 THEN [res EXCEPT ![i] = entity]
                 ELSE res

RECURSIVE ResolveAll(_, _, _)
ResolveAll(res, sorted_entities, gap) ==
    IF sorted_entities = <<>> THEN res
    ELSE ResolveAll(ResolveOne(res, Head(sorted_entities), gap), Tail(sorted_entities), gap)

\* a faulty variant: the candidates are taken in the order the extractors gave them
remove_overlaps_unsorted(entities, gap) ==
    IF entities = <<>> THEN entities ELSE ResolveAll(<<>>, entities, gap)
\* PseudonymizationPipeline._remove_overlaps
remove_overlaps(entities, gap) ==
    IF entities = <<>> THEN entities ELSE ResolveAll(<<>>, SortedByStart(entities), gap)

\* pseudonymizer.prepare(relevant_entities) of the pseudonymizer of a label
Prepare(P, label, relevant_entities) ==
    CASE label = "DATE" -> DatePrepare(P, relevant_entities)
      [] label = "LEGAL_PERSON" -> LegalPersonPrepare(P, relevant_entities)
      [] OTHER -> P

RECURSIVE PrepareFrom(_, _, _)
PrepareFrom(P, i, entities) ==
    IF i > Len(Labels) THEN P
    ELSE LET relevant_entities == SelectSeq(entities, LAMBDA e : e.label = Labels[i])
         IN  PrepareFrom(IF relevant_entities # <<>> THEN Prepare(P, Labels[i], relevant_entities)
                         ELSE P,
                         i + 1, entities)

\* PseudonymizationPipeline._prepare_pseudonymizers
prepare_pseudonymizers(P, entities) == PrepareFrom(P, 1, entities)

\* replacement_mapping[entity.text] = replacement and the splice into result_text;
\* st = [P, toks, mapping, exc], exc once get_replacement has raised
Replaced(st, entity, r) ==
    IF r.exc THEN [st EXCEPT !.P = r.P, !.exc = TRUE]
    ELSE [P       |-> r.P,
          toks    |-> SubSeq(st.toks, 1, entity.start) \o r.rep
                      \o SubSeq(st.toks, entity.end + 1, Len(st.toks)),
          mapping |-> DictSet(st.mapping, entity.text, r.rep),
          exc     |-> FALSE]

\* pseudonymizer._current_entity = entity for a PersonEntity, before get_replacement
Entered(P, entity) == IF entity.person THEN [P EXCEPT !.current_entity = <<entity>>] ELSE P

\* the body of the loop of _apply_pseudonymization for one entity
ApplyOne(st, entity) ==
    IF st.exc \/ entity.label \notin Range(Labels) THEN st
    ELSE Replaced(st, entity, get_replacement(Entered(st.P, entity), entity.label, entity.text))

RECURSIVE ApplyAll(_, _)
ApplyAll(st, ordered) ==
    IF ordered = <<>> THEN st ELSE ApplyAll(ApplyOne(st, Head(ordered)), Tail(ordered))

\* PseudonymizationPipeline._apply_pseudonymization: [P, toks, mapping, exc]
apply_pseudonymization(P, doc, entities) ==
    ApplyAll([P |-> P, toks |-> doc.toks, mapping |-> EmptyDict, exc |-> FALSE],
             SortedByStartDesc(entities))

\* a faulty variant: only "not text" is tested
IsEmpty(doc) == doc.toks = <<>>

\* not text or not text.strip()
IsBlank(doc) == \A i \in DOMAIN doc.toks : doc.toks[i].k = "blank"

-----------------------------------------------------------------------------
(* AddressPseudonymizer, on strings as sequences of characters *)

\* str.lower
LowerChars(cs) ==
    LET UpperCase == <<"A", "B", "C", "D", "E", "F", "G", "H", "I", "J", "K", "L", "M",
                       "N", "O", "P", "Q", "R", "S", "T", "U", "V", "W", "X", "Y", "Z">>
        LowerCase == <<"a", "b", "c", "d", "e", "f", "g", "h", "i", "j", "k", "l", "m",
                       "n", "o", "p", "q", "r", "s", "t", "u", "v", "w", "x", "y", "z">>
    IN
    [i \in DOMAIN cs |-> IF \E j \in DOMAIN UpperCase : UpperCase[j] = cs[i]
                         THEN LowerCase[CHOOSE j \in DOMAIN UpperCase : UpperCase[j] = cs[i]]
                         ELSE cs[i]]

\* str.strip
RECURSIVE LStrip(_)
LStrip(cs) == IF cs # <<>> /\ Head(cs) = " " THEN LStrip(Tail(cs)) ELSE cs

RECURSIVE RStrip(_)
RStrip(cs) ==
    IF cs # <<>> /\ cs[Len(cs)] = " " THEN RStrip(SubSeq(cs, 1, Len(cs) - 1)) ELSE cs

Strip(cs) == RStrip(LStrip(cs))

\* re.sub(r'\s+', ' ', cs)
RECURSIVE CollapseSpaces(_)
CollapseSpaces(cs) ==
    IF cs = <<>> THEN <<>>
    ELSE IF Head(cs) = " " THEN <<" ">> \o CollapseSpaces(LStrip(cs))
    ELSE <<Head(cs)>> \o CollapseSpaces(Tail(cs))

\* str.replace(old, new): leftmost occurrences, not overlapping
RECURSIVE Replace(_, _, _)
Replace(cs, old, new) ==
    IF Len(cs) < Len(old) THEN cs
    ELSE IF SubSeq(cs, 1, Len(old)) = old
    THEN new \o Replace(SubSeq(cs, Len(old) + 1, Len(cs)), old, new)
    ELSE <<Head(cs)>> \o Replace(Tail(cs), old, new)

\* the replacements dict of _normalize_address, in its order
replacements ==
    << <<<<" ", "s", "t", " ">>,
        <<" ", "s", "t", "r", "e", "e", "t", " ">> >>,
      << <<" ", "r", "d", " ">>,
        <<" ", "r", "o", "a", "d", " ">> >>,
      << <<" ", "a", "v", "e", " ">>,
        <<" ", "a", "v", "e", "n", "u", "e", " ">> >>,
      << <<" ", "d", "r", " ">>,
        <<" ", "d", "r", "i", "v", "e", " ">> >>,
      << <<" ", "l", "n", " ">>,
        <<" ", "l", "a", "n", "e", " ">> >>,
      << <<" ", "b", "l", "v", "d", " ">>,
        <<" ", "b", "o", "u", "l", "e", "v", "a", "r", "d", " ">> >>,
      << <<"c", "e", "n", "t", "r", "e">>,
        <<"c", "e", "n", "t", "e", "r">> >>,
      << <<",">>,
        <<>> >>,
      << <<".">>,
        <<>> >> >>

RECURSIVE ReplaceEach(_, _)
ReplaceEach(cs, i) ==
    IF i > Len(replacements) THEN cs
    ELSE ReplaceEach(Replace(cs, replacements[i][1], replacements[i][2]), i + 1)

\* AddressPseudonymizer._normalize_address
normalize_address(address) ==
    Strip(ReplaceEach(CollapseSpaces(Strip(LowerChars(address))), 1))

RECURSIVE JoinChars(_)
JoinChars(cs) == IF cs = <<>> THEN "" ELSE Head(cs) \o JoinChars(Tail(cs))

\* int(hashlib.sha256("legal_doc_addresses_2024:" + s).hexdigest()[:6], 16)
sha256_hex6(s) ==
    CASE s = "10 anson rd" -> 2084143
      [] s = "10 anson rd singapore 079903" -> 16472271
      [] s = "10 anson road" -> 219026
      [] s = "10 anson road singapore 079903" -> 15725703
      [] s = "10 anson st" -> 2098837
      [] s = "10 anson st singapore 079903" -> 3693641
      [] s = "10 anson street" -> 1272625
      [] s = "10 anson street singapore 079903" -> 10793591

\* AddressPseudonymizer.pseudonymize: "[ADDRESS NNNNNN]", as the number NNNNNN
AddressPseudonymize(original_text) ==
    [prefix |-> "[ADDRESS ",
     code   |-> sha256_hex6(JoinChars(normalize_address(original_text))) % 1000000]

\* EntityPseudonymizer.get_replacement on the cache of an AddressPseudonymizer
AddressGetReplacement(cache, original_text) ==
    IF original_text \in DOMAIN cache THEN cache
    ELSE DictSet(cache, original_text, AddressPseudonymize(original_text))

\* the addresses given to the pseudonymizer: "10 Anson <type>[,][ Singapore 079903]"
TenAnson == <<"1", "0", " ", "A", "n", "s", "o", "n", " ">>
Singapore ==
    <<" ", "S", "i", "n", "g", "a", "p", "o", "r", "e", " ", "0", "7", "9", "9", "0", "3">>
Addresses ==
    {TenAnson \o t \o c \o tail :
        t \in {<<"R", "o", "a", "d">>, <<"R", "d">>, <<"S", "t", "r", "e", "e", "t">>, <<"S", "t">>},
        c \in {<<",">>, <<>>}, tail \in {Singapore, <<>>}}

\* "10 Anson Road, Singapore 079903" and "10 Anson Rd, Singapore 079903"
AnsonRoad == TenAnson \o <<"R", "o", "a", "d">> \o <<",">> \o Singapore
AnsonRd   == TenAnson \o <<"R", "d">> \o <<",">> \o Singapore

-----------------------------------------------------------------------------
(* The documents of the model and the answers of the NER model *)

D1   == DateTok("d B Y", "", 3, 5, 2021)           \* "3 May 2021"
D2   == DateTok("d B Y", "", 15, 8, 2021)          \* "15 August 2021"
D3   == DateTok("d B Y", "", 31, 2, 2021)          \* "31 February 2021": no date
Q    == QualTok("Carlos Rivera", "Defendant")      \* "Carlos Rivera (Defendant)"
Qq   == QualTok("Carlos Rivera", "\"Defendant\"")  \* "Carlos Rivera ("Defendant")"
N    == NameTok("Carlos Rivera")                   \* "Carlos Rivera"
O1   == OrgTok("Orion Holdings", "Ltd")            \* "Orion Holdings Ltd"
M1   == MoneyTok("code", "USD", 450000, -1, 6)     \* "USD 450,000"
Mbad == MoneyTok("code", "USD", 0, -1, 0)          \* "USD ,": an amount with no digit

Vocab == {D1, D2, D3, Q, Qq, N, O1, M1, Mbad}

\* the running text between two phrases is one character, or more than context_window
Gaps == {1, context_window + 10}

Doc(toks, gap) == [toks |-> toks, gap |-> gap]

Docs ==
    {Doc(t, g) : t \in SeqsUpTo(Vocab, MaxDocLen) \ {<<>>}, g \in Gaps}
        \cup {Doc(b, 1) : b \in SeqsUpTo({Tok("blank", " ", "", 0, 0, 0)}, MaxDocLen)}

\* the documents given to a pipeline object that is used for several documents
ReuseDocs == {Doc(t, 1) : t \in SeqsUpTo({D1, D2, O1, N}, MaxDocLen)}

\* the labels the NER model may give to a phrase
NerLabels(tok) ==
    CASE tok.k = "name" -> {"PERSON", "GPE"}
      [] tok.k = "org" -> {"ORG"}
      [] OTHER -> {}

\* doc.ents of nlp(text): at most MaxNer entities, in text order, none overlapping
NerAnswers(doc) ==
    LET choices == {f \in [DOMAIN doc.toks -> {"", "PERSON", "GPE", "ORG"}] :
                        /\ \A i \in DOMAIN f : f[i] = "" \/ f[i] \in NerLabels(doc.toks[i])
                        /\ Cardinality({i \in DOMAIN f : f[i] # ""}) <= MaxNer}
    IN  {Concat([i \in DOMAIN f |->
                    IF f[i] # "" THEN <<Entity(i - 1, i, f[i], <<doc.toks[i]>>)>> ELSE <<>>]) :
            f \in choices}

-----------------------------------------------------------------------------
(* State of the pipeline object and of a call *)

PState ==
    [replacement_cache     |-> replacement_cache,
     counter               |-> counter,
     date_mapping          |-> date_mapping,
     name_to_role_registry |-> name_to_role_registry,
     role_counters         |-> role_counters,
     current_entity        |-> current_entity,
     rng                   |-> rng]

SetP(P) ==
    /\ replacement_cache' = P.replacement_cache
    /\ counter' = P.counter
    /\ date_mapping' = P.date_mapping
    /\ name_to_role_registry' = P.name_to_role_registry
    /\ role_counters' = P.role_counters
    /\ current_entity' = P.current_entity
    /\ rng' = P.rng

\* the generator with the next draws of the random module made known
WithDraws(P, raws) == [P EXCEPT !.rng.tape = @ \o raws]

\* the generator with the draws that were not made forgotten again
Trim(P, known) ==
    [P EXCEPT !.rng.tape = SubSeq(@, 1, IF P.rng.pos > known THEN P.rng.pos ELSE known)]

NoDoc == Doc(<<>>, 1)
NoResult == [text |-> NoDoc, mapping |-> EmptyDict]
NoEnv == [ner |-> <<>>, failed |-> {}, i |-> 0]

InitCall ==
    /\ pc = "Idle"
    /\ text = NoDoc
    /\ all_entities = <<>>
    /\ result = NoResult
    /\ calls = 0
    /\ env = NoEnv
    /\ prev = <<>>

\* PseudonymizationPipeline.__init__ where the model "en_core_web_sm" alone is installed
InitPipeline ==
    LET P == initialize_pseudonymizers([tape |-> <<>>, pos |-> 0])
    IN  /\ nlp = [installed |-> {"en_core_web_sm"},
                  model     |-> load_spacy_model({"en_core_web_sm"})]
        /\ replacement_cache = P.replacement_cache
        /\ counter = P.counter
        /\ date_mapping = P.date_mapping
        /\ name_to_role_registry = P.name_to_role_registry
        /\ role_counters = P.role_counters
        /\ current_entity = P.current_entity
        /\ rng = P.rng

Init ==
    /\ InitPipeline
    /\ InitCall
    /\ ov = [in |-> <<>>, out |-> <<>>, done |-> FALSE]
    /\ addr = [cache |-> EmptyDict]
    /\ asked = [first |-> <<>>, again |-> FALSE]
    /\ randomized = <<>>
    /\ written = <<>>

-----------------------------------------------------------------------------
(* Actions of a pipeline object *)

\* PseudonymizationPipeline.pseudonymize, up to the first step; the whole call for a blank text
Call(doc) ==
    /\ pc \in {"Idle", "Done"}
    /\ calls < MaxCalls
    /\ prev # <<>> => doc = prev.text
    /\ text' = doc
    /\ calls' = calls + 1
    /\ all_entities' = <<>>
    /\ IF IsBlank(doc)
       THEN /\ pc' = "Done"
            /\ result' = [text |-> doc, mapping |-> EmptyDict]
            /\ env' = NoEnv
       ELSE /\ pc' = "Extracting"
            /\ result' = NoResult
            /\ env' = [NoEnv EXCEPT !.i = 1]
    /\ UNCHANGED <<pipeVars, rng, prev, ov, addr, asked, randomized, written>>

\* _extract_all_entities: the extractor in turn returns its entities
ExtractReturns ==
    /\ pc = "Extracting"
    /\ LET name == Extractors[env.i]
       IN  /\ prev # <<>> => name \notin prev.env.failed
           /\ \E ner \in (IF name = "SpacyExtractor" THEN NerAnswers(text) ELSE {<<>>}) :
                /\ (prev # <<>> /\ name = "SpacyExtractor") => ner = prev.env.ner
                /\ all_entities' = ExtractorStep(all_entities, name, text, ner, FALSE)
                /\ env' = [env EXCEPT !.i = @ + 1,
                                      !.ner = IF name = "SpacyExtractor" THEN ner ELSE @]
    /\ pc' = IF env.i = Len(Extractors) THEN "Resolving" ELSE "Extracting"
    /\ UNCHANGED <<pipeVars, rng, text, result, calls, prev, ov, addr, asked, randomized, written>>

\* _extract_all_entities: the extractor in turn raises; the exception is caught and logged
ExtractRaises ==
    /\ pc = "Extracting"
    /\ LET name == Extractors[env.i]
       IN  /\ IF prev # <<>> THEN name \in prev.env.failed
              ELSE Cardinality(env.failed) < MaxFail
           /\ all_entities' = ExtractorStep(all_entities, name, text, <<>>, TRUE)
           /\ env' = [env EXCEPT !.i = @ + 1, !.failed = @ \cup {name}]
    /\ pc' = IF env.i = Len(Extractors) THEN "Resolving" ELSE "Extracting"
    /\ UNCHANGED <<pipeVars, rng, text, result, calls, prev, ov, addr, asked, randomized, written>>

\* a faulty variant: the prepare hooks run on the candidates while the resolver is at work
ResolveWhilePreparing ==
    /\ pc = "Resolving"
    /\ all_entities' = remove_overlaps(all_entities, text.gap)
    /\ \E raw \in Raw :
         SetP(Trim(prepare_pseudonymizers(WithDraws(PState, <<raw>>), all_entities),
                   Len(rng.tape)))
    /\ pc' = "Preparing"
    /\ UNCHANGED <<text, result, calls, env, prev, ov, addr, asked, randomized, written, nlp>>
\* step 2 of pseudonymize
Resolve ==
    /\ pc = "Resolving"
    /\ all_entities' = remove_overlaps(all_entities, text.gap)
    /\ pc' = "Preparing"
    /\ UNCHANGED <<pipeVars, rng, text, result, calls, env, prev, ov, addr, asked, randomized, written>>

\* step 3 of pseudonymize
PrepareStep ==
    /\ pc = "Preparing"
    /\ \E raw \in Raw :
         SetP(Trim(prepare_pseudonymizers(WithDraws(PState, <<raw>>), all_entities),
                   Len(rng.tape)))
    /\ pc' = "Substituting"
    /\ UNCHANGED <<text, all_entities, result, calls, env, prev, ov, addr, asked, randomized, written, nlp>>

\* the end of pseudonymize with r = [P, toks, mapping, exc] of _apply_pseudonymization
Returns(r) ==
    /\ SetP(Trim(r.P, Len(rng.tape)))
    /\ IF r.exc
       THEN pc' = "Raised" /\ result' = NoResult
       ELSE pc' = "Done" /\ result' = [text |-> Doc(r.toks, text.gap), mapping |-> r.mapping]

\* step 4 of pseudonymize and the return; an exception of get_replacement leaves the call
Substitute ==
    /\ pc = "Substituting"
    /\ \E raws \in [1..Len(text.toks) -> Raw] :
         Returns(apply_pseudonymization(WithDraws(PState, raws), text, all_entities))
    /\ UNCHANGED <<text, all_entities, calls, env, prev, ov, addr, asked, randomized, written, nlp>>

\* PseudonymizationPipeline(): a new pipeline object, the generator in a state of its
\* own; __init__ raises RuntimeError when no spaCy model can be loaded
Construct(installed) ==
    /\ nlp' = [installed |-> installed, model |-> load_spacy_model(installed)]
    /\ pc' = IF load_spacy_model(installed) = "" THEN "ConfigError" ELSE "Idle"
    /\ SetP(initialize_pseudonymizers([tape |-> <<>>, pos |-> 0]))
    /\ text' = NoDoc
    /\ all_entities' = <<>>
    /\ result' = NoResult
    /\ calls' = 0
    /\ env' = NoEnv
    /\ prev' = <<>>
    /\ UNCHANGED <<ov, addr, asked, randomized, written>>

\* pseudonymize_text once more, the installed models as they were
NewRun ==
    /\ pc \in {"Done", "Raised"}
    /\ Construct(nlp.installed)

\* pseudonymize_text once more on the same text, the generator seeded as before the first run
Rerun ==
    /\ pc \in {"Done", "Raised"}
    /\ prev = <<>>
    /\ prev' = [text |-> text, env |-> env, result |-> result, pc |-> pc]
    /\ SetP(initialize_pseudonymizers([tape |-> rng.tape, pos |-> 0]))
    /\ pc' = "Idle"
    /\ text' = NoDoc
    /\ all_entities' = <<>>
    /\ result' = NoResult
    /\ calls' = 0
    /\ env' = NoEnv
    /\ UNCHANGED <<ov, addr, asked, randomized, written, nlp>>

\* runs of pseudonymize_text, each on a pipeline object of its own
Next ==
    \/ \E doc \in Docs : pc = "Idle" /\ Call(doc)
    \/ ExtractReturns
    \/ ExtractRaises
    \/ Resolve
    \/ PrepareStep
    \/ Substitute
    \/ NewRun
    \/ Rerun

Spec == Init /\ [][Next]_vars

\* one pipeline object, used for up to MaxCalls documents
NextReuse ==
    \/ \E doc \in ReuseDocs : Call(doc)
    \/ ExtractReturns
    \/ Resolve
    \/ PrepareStep
    \/ Substitute

SpecReuse == Init /\ [][NextReuse]_vars

\* pipeline objects constructed under any set of installed models and then used
InitConstruct ==
    /\ \E installed \in SUBSET Range(models_to_try) :
          /\ nlp = [installed |-> installed, model |-> load_spacy_model(installed)]
          /\ pc = IF load_spacy_model(installed) = "" THEN "ConfigError" ELSE "Idle"
    /\ \E P \in {initialize_pseudonymizers([tape |-> <<>>, pos |-> 0])} :
          /\ replacement_cache = P.replacement_cache
          /\ counter = P.counter
          /\ date_mapping = P.date_mapping
          /\ name_to_role_registry = P.name_to_role_registry
          /\ role_counters = P.role_counters
          /\ current_entity = P.current_entity
          /\ rng = P.rng
    /\ text = NoDoc
    /\ all_entities = <<>>
    /\ result = NoResult
    /\ calls = 0
    /\ env = NoEnv
    /\ prev = <<>>
    /\ ov = [in |-> <<>>, out |-> <<>>, done |-> FALSE]
    /\ addr = [cache |-> EmptyDict]
    /\ asked = [first |-> <<>>, again |-> FALSE]
    /\ randomized = <<>>
    /\ written = <<>>

NextConstruct ==
    \/ \E installed \in SUBSET Range(models_to_try) :
          pc \in {"Idle", "Done", "Raised", "ConfigError"} /\ Construct(installed)
    \/ \E doc \in {Doc(t, 1) : t \in SeqsUpTo({D1, N}, MaxDocLen)} : Call(doc)
    \/ ExtractReturns
    \/ Resolve
    \/ PrepareStep
    \/ Substitute

SpecConstruct == InitConstruct /\ [][NextConstruct]_vars

-----------------------------------------------------------------------------
(* One pseudonymizer alone, given texts one after the other *)

\* get_replacement has ended with r = [P, rep, exc]: the pseudonymizer is as the call
\* left it; an exception leaves the caller
Got(r) ==
    /\ SetP(Trim(r.P, Len(rng.tape)))
    /\ pc' = IF r.exc THEN "Raised" ELSE pc
-----------------------------------------------------------------------------
(* The overlap resolver alone, on any list of candidate spans *)

\* a candidate span over a text of MaxPos characters
Candidates ==
    UNION {{Entity(a, b, l, [i \in 1..(b - a) |-> Lit("x")]) : b \in (a + 1)..MaxPos} :
              a \in 0..MaxPos, l \in {"PERSON", "DATE"}}

InitOverlap ==
    /\ InitPipeline
    /\ InitCall
    /\ addr = [cache |-> EmptyDict]
    /\ asked = [first |-> <<>>, again |-> FALSE]
    /\ randomized = <<>>
    /\ written = <<>>
    /\ ov \in {[in |-> es, out |-> <<>>, done |-> FALSE] : es \in SeqsUpTo(Candidates, MaxCands)}

\* PseudonymizationPipeline._remove_overlaps(entities)
RemoveOverlaps ==
    /\ ~ov.done
    /\ ov' = [ov EXCEPT !.out = remove_overlaps(ov.in, 0), !.done = TRUE]
    /\ UNCHANGED <<pipeVars, rng, callVars, prev, addr, asked, randomized, written>>

SpecOverlap == InitOverlap /\ [][RemoveOverlaps]_vars

-----------------------------------------------------------------------------
(* One AddressPseudonymizer alone *)

\* pseudonymizer.get_replacement(address, "ADDRESS")
AddressGet(address) ==
    /\ Cardinality(DOMAIN addr.cache) < MaxAddr
    /\ addr' = [addr EXCEPT !.cache = AddressGetReplacement(@, address)]
    /\ UNCHANGED <<pipeVars, rng, callVars, prev, ov, asked, randomized, written>>

SpecAddr == Init /\ [][\E address \in Addresses : AddressGet(address)]_vars


-----------------------------------------------------------------------------
(* One MoneyPseudonymizer alone *)

\* the texts given to the pseudonymizer: amounts in the four forms, with and without
\* decimals, an amount without a digit, and a text that is no amount
Amounts ==
    {MoneyTok(f[1], f[2], u, c, NumDigits(u) + (IF c >= 0 THEN 2 ELSE 0)) :
        f \in {<<"code", "USD">>, <<"code", "usd">>, <<"full", "USD">>, <<"symbol", "$">>,
               <<"written", "dollars">>, <<"written", "Dollars">>},
        u \in {7, 1500}, c \in {-1, 50}}
        \cup {M1, Mbad, N}

\* pseudonymizer.get_replacement(text, "MONEY")
MoneyGet(tok) ==
    /\ pc = "Idle"
    /\ Cardinality(DOMAIN replacement_cache["MONEY"]) < MaxMoney
    /\ \E raw \in Raw :
         Got(get_replacement(WithDraws(PState, <<raw>>), "MONEY", <<tok>>))
    /\ UNCHANGED <<text, all_entities, result, calls, env, prev, ov, addr, asked, randomized, written, nlp>>

SpecMoney == Init /\ [][\E tok \in Amounts : MoneyGet(tok)]_vars

-----------------------------------------------------------------------------
(* MoneyPseudonymizer._number_to_written alone *)

\* the amounts written in words: 0 .. MaxWritten, amounts around the thousands, millions
\* and billions, and the amounts _handle_full_format makes of "USD 1,234,567 (...)" and
\* of "USD 1,500.50 (...)"
WrittenAmounts ==
    (0..MaxWritten)
        \cup {999, 1000, 1001, 1500, 12000, 999999, 1000000, 1000567, 1234567, 1000000000,
              1234567890, 2000000001}
        \cup {handle_full_format(tok, raw).rep[1].n1 :
                  tok \in {MoneyTok("full", "USD", 1234567, -1, 7),
                           MoneyTok("full", "USD", 1500, 50, 6)},
                  raw \in Raw}

\* written_amount = self._number_to_written(new_amount_int), applied once
Written(amount) ==
    /\ written = <<>>
    /\ written' = [amount |-> amount, words |-> number_to_written(amount)]
    /\ UNCHANGED <<pipeVars, rng, callVars, prev, ov, addr, asked, randomized>>

SpecWritten == Init /\ [][\E amount \in WrittenAmounts : Written(amount)]_vars

-----------------------------------------------------------------------------
(* One LegalPersonPseudonymizer alone: prepare on the LEGAL_PERSON spans of a *)
(* document, then get_replacement on these spans as _apply_pseudonymization   *)
(* asks for them                                                              *)

\* mentions of Carlos Rivera with a role: "Carlos Rivera (Defendant)", "Defendant Carlos
\* Rivera", "defendant Carlos Rivera", and the same as plaintiff
Mentions ==
    UNION {{QualTok("Carlos Rivera", role), RoleNameTok(role, "Carlos Rivera"),
            RoleNameTok(Lower(role), "Carlos Rivera")} : role \in {"Defendant", "Plaintiff"}}

\* extractor.extract(text) and pseudonymizer.prepare(all_entities) of a new pseudonymizer
PersonPrepare(doc) ==
    /\ pc = "Idle"
    /\ all_entities = <<>>
    /\ text = NoDoc
    /\ text' = doc
    /\ all_entities' = LegalPersonExtract(doc)
    /\ SetP(LegalPersonPrepare(PState, LegalPersonExtract(doc)))
    /\ UNCHANGED <<pc, result, calls, env, prev, ov, addr, asked, randomized, written, nlp>>

\* pseudonymizer._current_entity = entity; pseudonymizer.get_replacement(entity.text,
\* entity.label), for a span of the document
PersonGet(i) ==
    /\ pc = "Idle"
    /\ i \in DOMAIN all_entities
    /\ all_entities[i].label = "LEGAL_PERSON"
    /\ Got(get_replacement(Entered(PState, all_entities[i]), "LEGAL_PERSON", all_entities[i].text))
    /\ UNCHANGED <<text, all_entities, result, calls, env, prev, ov, addr, asked, randomized,
                   written, nlp>>

NextPerson ==
    \/ \E toks \in SeqsUpTo(Mentions, MaxMentions) \ {<<>>} : PersonPrepare(Doc(toks, 1))
    \/ \E i \in 1..MaxMentions : PersonGet(i)

SpecPerson == Init /\ [][NextPerson]_vars

-----------------------------------------------------------------------------
(* One DatePseudonymizer alone: prepare on the DATE spans of a document, then *)
(* get_replacement on the texts of these spans                                *)

\* 14 February 2019 and 3 May 2021 as each of the date_formats reads them, the fields of a
\* token in the order they are written, and 3 February 1850 with dashes
DateTexts ==
    UNION {{DateTok("d B Y", "", c[1], c[2], c[3]), DateTok("B d Y", "", c[2], c[1], c[3]),
            DateTok("B d, Y", "", c[2], c[1], c[3]), DateTok("d b Y", "", c[1], c[2], c[3]),
            DateTok("b d Y", "", c[2], c[1], c[3]), DateTok("b d, Y", "", c[2], c[1], c[3]),
            DateTok("n-n-n", "", c[3], c[2], c[1]), DateTok("n/n/n", "", c[1], c[2], c[3]),
            DateTok("n/n/n", "", c[2], c[1], c[3]), DateTok("n-n-n", "", c[1], c[2], c[3]),
            DateTok("n-n-n", "", c[2], c[1], c[3])} : c \in {<<14, 2, 2019>>, <<3, 5, 2021>>}}
        \cup {DateTok("n-n-n", "", 1850, 2, 3)}

\* pseudonymizer.prepare(all_entities) of a new pseudonymizer
DatePrepareAlone(ents) ==
    /\ pc = "Idle"
    /\ all_entities = <<>>
    /\ ents # <<>>
    /\ \E raw \in Raw : SetP(Trim(DatePrepare(WithDraws(PState, <<raw>>), ents), Len(rng.tape)))
    /\ all_entities' = ents
    /\ UNCHANGED <<pc, text, result, calls, env, prev, ov, addr, asked, randomized, written, nlp>>

\* pseudonymizer.get_replacement(entity.text, "DATE") for a span the mapping was prepared on
DateGet(tok) ==
    /\ pc = "Idle"
    /\ \E i \in DOMAIN all_entities : all_entities[i].text = <<tok>>
    /\ Got(get_replacement(PState, "DATE", <<tok>>))
    /\ UNCHANGED <<text, all_entities, result, calls, env, prev, ov, addr, asked, randomized,
                   written, nlp>>

NextDate ==
    \/ \E ents \in SeqsUpTo({Entity(0, 1, "DATE", <<tok>>) : tok \in DateTexts}, MaxDates) :
          DatePrepareAlone(ents)
    \/ \E tok \in DateTexts : DateGet(tok)

SpecDate == Init /\ [][NextDate]_vars

-----------------------------------------------------------------------------
(* NumberRandomizer and one NumberPseudonymizer alone *)

\* the values given to randomize_number, in thousandths: 0, 0.5, 1, 2.5, 5, 10, 10.001, 12,
\* 1500 and -3
Values == {0, 500, 1000, 2500, 5000, 10000, 10001, 12000, 1500000, -3000}

\* the texts given to the pseudonymizer: "5%", "10%", "7.5%", "45%", "3:1", "2:12", "1/4",
\* "25 people", "3.5 shares", "3 years", "1,500", "2.50", "12.75", "7", "12", "100"
Numbers ==
    {NumTok("percent", "", 5, 0), NumTok("percent", "", 10, 0), NumTok("percent", "", 75, 1),
     NumTok("percent", "", 45, 0), NumTok("ratio", "", 3, 1), NumTok("ratio", "", 2, 12),
     NumTok("fraction", "", 1, 4), NumTok("unit", "people", 25, 0),
     NumTok("unit", "shares", 35, 1), NumTok("unit", "years", 3, 0),
     NumTok("comma", "", 1500, 0), NumTok("decimal", "", 250, 2),
     NumTok("decimal", "", 1275, 2), NumTok("integer", "", 7, 0),
     NumTok("integer", "", 12, 0), NumTok("integer", "", 100, 0)}

\* NumberRandomizer.randomize_number(value, preserve_small), applied once
Randomize(value, preserve_small) ==
    /\ randomized = <<>>
    /\ \E d \in Draws :
         randomized' = [value |-> value, small |-> preserve_small,
                        out |-> randomize_number(value, preserve_small, d)]
    /\ UNCHANGED <<pipeVars, rng, callVars, prev, ov, addr, asked, written>>

\* pseudonymizer.get_replacement(text, "NUMBER") for a text not asked for before
NumberGet(tok) ==
    /\ pc = "Idle"
    /\ Cardinality(DOMAIN replacement_cache["NUMBER"]) < MaxNumbers
    /\ <<tok>> \notin DOMAIN replacement_cache["NUMBER"]
    /\ \E d1, d2 \in Draws :
         replacement_cache' = [replacement_cache EXCEPT
                                  !["NUMBER"] = DictSet(@, <<tok>>, NumberPseudonymize(<<tok>>, d1, d2))]
    /\ UNCHANGED <<counter, date_mapping, name_to_role_registry, role_counters, current_entity,
                   rng, callVars, prev, ov, addr, asked, randomized, written, nlp>>

NextNumber ==
    \/ \E value \in Values, preserve_small \in BOOLEAN : Randomize(value, preserve_small)
    \/ \E tok \in Numbers : NumberGet(tok)

SpecNumber == Init /\ [][NextNumber]_vars

-----------------------------------------------------------------------------
(* One OrganizationPseudonymizer alone *)

\* "Org<i> Ltd"
OrgNo(i) == <<Tok("org", "Org", "Ltd", i, 0, 0)>>

\* "DBS Bank Ltd, Raffles Place Branch": a bank with its branch clause, one span of the
\* first pattern of OrganizationExtractor
BankWithBranch == <<OrgTok("DBS Bank", "Ltd"), Lit(", Raffles Place Branch")>>

\* the texts given to the pseudonymizer besides "Org1 Ltd", "Org2 Ltd", ...: a bank with a
\* branch clause, "Alpha Inc.,", "Beta Energy PTE LTD", "Family Trust" and "Acme"
OrgTexts ==
    {BankWithBranch,
     <<OrgTok("Alpha", "Inc"), Tok("punct", ".,", "", 0, 0, 0)>>,
     <<OrgTok("Beta Energy", "PTE LTD")>>,
     <<OrgTok("Family", "Trust")>>,
     <<NameTok("Acme")>>}

\* pseudonymizer.get_replacement(text, "ORG"): a text given before, one of OrgTexts among
\* the first MaxMixed texts, or the next of "Org1 Ltd", "Org2 Ltd", ...
OrgGet(txt) ==
    /\ pc = "Idle"
    /\ \/ txt \in Range(asked.first)
       \/ txt \in OrgTexts /\ Len(asked.first) < MaxMixed
       \/ txt = OrgNo(Cardinality(Range(asked.first) \ OrgTexts) + 1)
    /\ Got(get_replacement(PState, "ORG", txt))
    /\ asked' = [first |-> IF txt \in Range(asked.first) THEN asked.first
                           ELSE Append(asked.first, txt),
                 again |-> txt \in Range(asked.first)]
    /\ UNCHANGED <<text, all_entities, result, calls, env, prev, ov, addr, randomized, written, nlp>>

SpecOrg == Init /\ [][\E txt \in OrgTexts \cup {OrgNo(i) : i \in 1..MaxOrgs} : OrgGet(txt)]_vars
-----------------------------------------------------------------------------
(* pseudonymize as one function of the text and of what its collaborators do *)

\* all_entities after step 1, when the extractors in failed raise and add nothing
Collected(doc, ner, failed) ==
    Concat([i \in DOMAIN Extractors |->
                IF Extractors[i] \in failed THEN <<>> ELSE Extract(Extractors[i], doc, ner)])

\* PseudonymizationPipeline.pseudonymize: [P, toks, mapping, exc]
pseudonymize(P, doc, ner, failed) ==
    IF IsBlank(doc)
    THEN [P |-> P, toks |-> doc.toks, mapping |-> EmptyDict, exc |-> FALSE]
    ELSE LET entities == remove_overlaps(Collected(doc, ner, failed), doc.gap)
         IN  apply_pseudonymization(prepare_pseudonymizers(P, entities), doc, entities)

-----------------------------------------------------------------------------
(* What a finished call wrote where *)

\* the length of the replacement of an accepted span
RepLen(e) == Len(result.mapping[e.text])

\* how far the replacements to the left of position start moved the text
RECURSIVE ShiftBefore(_, _)
ShiftBefore(entities, start) ==
    IF entities = <<>> THEN 0
    ELSE (IF Head(entities).start < start
          THEN RepLen(Head(entities)) - (Head(entities).end - Head(entities).start)
          ELSE 0) + ShiftBefore(Tail(entities), start)

\* the part of the returned text that stands where the accepted span e stood
WrittenAt(e) ==
    SubSeq(result.text.toks, e.start + ShiftBefore(all_entities, e.start) + 1,
           e.start + ShiftBefore(all_entities, e.start) + RepLen(e))

\* the accepted spans of a label
AcceptedOf(label) == {e \in Range(all_entities) : e.label = label}

-----------------------------------------------------------------------------
(* Properties *)

\* C1: within one pseudonymize call on a freshly constructed pipeline, any two accepted
\* DATE spans whose texts parse to dates d1 and d2 are replaced by texts that parse to
\* dates m1 and m2 with m2 - m1 = d2 - d1, whatever the random start offset.
C1_IntervalPreservation ==
    pc = "Done" =>
        \A e1, e2 \in AcceptedOf("DATE") :
            (parse_date(e1.text) # 0 /\ parse_date(e2.text) # 0) =>
                /\ parse_date(WrittenAt(e1)) # 0
                /\ parse_date(WrittenAt(e2)) # 0
                /\ parse_date(WrittenAt(e2)) - parse_date(WrittenAt(e1))
                       = parse_date(e2.text) - parse_date(e1.text)

\* a call has returned with two accepted DATE spans of different dates replaced
C1_Witness ==
    /\ pc = "Done"
    /\ \E e1, e2 \in AcceptedOf("DATE") :
          /\ parse_date(e1.text) # 0
          /\ parse_date(e2.text) > parse_date(e1.text)
          /\ WrittenAt(e1) # e1.text

\* C2: when a document holds a role-qualified mention of a name and a bare mention of the
\* same name, the bare mention (here: one the NER model found and the pipeline accepted)
\* is replaced with the role-based pseudonym of the qualified mention.
C2_BareMentionInheritsRole ==
    pc = "Done" =>
        \A q \in AcceptedOf("LEGAL_PERSON"), b \in AcceptedOf("PERSON") :
            extract_name_from_entity_text(q.text) = Str(b.text) => WrittenAt(b) = WrittenAt(q)

\* C3: the list the overlap resolver returns holds no two spans a, b with
\* a.start < b.end and a.end > b.start.
C3_NoOverlapAfterResolution ==
    ov.done =>
        \A i, j \in DOMAIN ov.out :
            i # j => ~(ov.out[i].start < ov.out[j].end /\ ov.out[i].end > ov.out[j].start)

\* the resolver has dropped overlapping candidates and kept two spans or more
C3_Witness ==
    /\ ov.done
    /\ Len(ov.out) >= 2
    /\ Len(ov.out) < Len(ov.in)
    /\ \E i, j \in DOMAIN ov.in :
          i # j /\ ov.in[i].start < ov.in[j].end /\ ov.in[i].end > ov.in[j].start

\* C4: at the start of every pseudonymize call, also the second and later ones on the same
\* pipeline object, every replacement cache is empty, the organization and role counters
\* are zero and the date mapping and the name-to-role registry are empty.
C4_NoStateAcrossDocuments ==
    pc = "Extracting" =>
        /\ \A l \in Range(Labels) : replacement_cache[l] = EmptyDict
        /\ counter = 0
        /\ role_counters = EmptyDict
        /\ date_mapping = EmptyDict
        /\ name_to_role_registry = <<>>

C6_BlankInputUntouched ==
    [][(calls' = calls + 1 /\ \A i \in DOMAIN text'.toks : text'.toks[i].k = "blank") =>
          /\ pc' = "Done"
          /\ result' = [text |-> text', mapping |-> EmptyDict]
          /\ env'.i = 0
          /\ all_entities' = <<>>
          /\ UNCHANGED <<pipeVars, rng>>]_vars

\* a call with a whitespace-only text has returned
C6_Witness ==
    /\ pc = "Done"
    /\ calls = 1
    /\ text.toks # <<>>
    /\ \A i \in DOMAIN text.toks : text.toks[i].k = "blank"
    /\ result.text = text

\* the outcome r of pseudonymize is the outcome of the call that has ended
SameOutcome(r) ==
    /\ (pc = "Raised") = r.exc
    /\ pc = "Done" => result = [text |-> Doc(r.toks, text.gap), mapping |-> r.mapping]

\* the generator as it was at the start of the run, with the draws of the run
DrawsOfRun == [tape |-> rng.tape \o [i \in 1..(MaxDocLen + 2) |-> 0], pos |-> 0]

\* C7: when extractors raise, every extractor is still run and the call ends as the call
\* in which the raising extractors find no span.
C7_ExtractorFailureIsLocal ==
    (pc \in {"Done", "Raised"} /\ env.failed # {}) =>
        /\ env.i = Len(Extractors) + 1
        /\ SameOutcome(pseudonymize(initialize_pseudonymizers(DrawsOfRun), text, env.ner,
                                    env.failed))

\* a call in which an extractor raised has returned a text with replacements
C7_Witness ==
    /\ pc = "Done"
    /\ env.failed # {}
    /\ DOMAIN result.mapping # {}
    /\ Len(all_entities) >= 2

\* C8: a failure while the replacement of one accepted span is generated is local to the
\* span: pseudonymize still returns a text and a mapping.
C8_SubstitutionFailureIsLocal == pc # "Raised"

\* C9: "10 Anson Road, Singapore 079903" and "10 Anson Rd, Singapore 079903" get the same
\* [ADDRESS NNNNNN] code from one AddressPseudonymizer.
C9_AbbreviationSameCode ==
    (AnsonRoad \in DOMAIN addr.cache /\ AnsonRd \in DOMAIN addr.cache) =>
        addr.cache[AnsonRoad] = addr.cache[AnsonRd]

\* C10: the keys of the returned mapping are the texts of the accepted spans, and what
\* stands in the returned text at an accepted span is the mapping's value for its text.
C10_MappingMatchesOutput ==
    pc = "Done" =>
        /\ DOMAIN result.mapping = {e.text : e \in Range(all_entities)}
        /\ \A e \in Range(all_entities) : WrittenAt(e) = result.mapping[e.text]

\* a later get_replacement for the text of r, the outcome of a first one that returned,
\* returns the same replacement and leaves the pseudonymizers and the generator as they were
StableAfter(r, label, original_text) ==
    r.exc \/ get_replacement(r.P, label, original_text) = [P |-> r.P, rep |-> r.rep, exc |-> FALSE]

\* C11: once get_replacement of a pseudonymizer has returned a value for a text, a later
\* get_replacement for the same text in the same call returns the same value, advances no
\* counter and draws no random number.
C11_CachedReplacementIsStable ==
    pc \in {"Substituting", "Done"} =>
        \A e \in Range(all_entities) : \A raw \in Raw :
            StableAfter(get_replacement(WithDraws(Entered(PState, e), <<raw, raw>>),
                                        e.label, e.text),
                        e.label, e.text)

\* a call has returned in which the replacement of one organization text or money text was
\* requested twice, and one counter step or one draw was made for it
C11_Witness ==
    /\ pc = "Done"
    /\ \E e1, e2 \in Range(all_entities) :
          /\ e1.start # e2.start
          /\ e1.text = e2.text
          /\ e1.label = e2.label
          /\ \/ e1.label = "ORG" /\ counter = 1
             \/ e1.label = "MONEY" /\ rng.pos = 1
          /\ WrittenAt(e1) = WrittenAt(e2)

\* the accepted DATE spans whose text parses, in the order of all_entities
ParseableDates == SelectSeq(all_entities, LAMBDA e : e.label = "DATE" /\ parse_date(e.text) # 0)

\* C12: a DATE span whose text parses under no supported format is replaced by
\* "[UNPARSEABLE DATE: <original>]"; the date mapping is the one built from the parseable
\* dates alone; and no call fails because of a date.
C12_UnparseableDateIsMarked ==
    /\ pc = "Done" =>
          /\ \A e \in AcceptedOf("DATE") :
                parse_date(e.text) = 0 =>
                    WrittenAt(e) = <<Lit("[UNPARSEABLE DATE:")>> \o e.text \o <<Lit("]")>>
          /\ date_mapping =
                DatePrepare(initialize_pseudonymizers([tape |-> rng.tape, pos |-> 0]),
                            ParseableDates).date_mapping
    /\ pc = "Raised" => AcceptedOf("MONEY") # {}

\* a call has returned with an unparseable date marked and a parseable date shifted
C12_Witness ==
    /\ pc = "Done"
    /\ \E e \in AcceptedOf("DATE") : parse_date(e.text) = 0 /\ Len(WrittenAt(e)) = 3
    /\ \E e \in AcceptedOf("DATE") :
          parse_date(e.text) # 0 /\ parse_date(WrittenAt(e)) = date_mapping[parse_date(e.text)]

\* C13: the replacement MoneyPseudonymizer gives keeps the format of the amount: the same
\* currency code, symbol or word in the same form, no decimals for an amount without
\* decimals and two decimals for an amount with two; a text that is no amount gives
\* "[REDACTED AMOUNT]".
C13_MoneyFormatKept ==
    \A o \in DOMAIN replacement_cache["MONEY"] :
        IF o[1].k = "money"
        THEN /\ Len(replacement_cache["MONEY"][o]) = 1
             /\ replacement_cache["MONEY"][o][1].k = "money"
             /\ replacement_cache["MONEY"][o][1].s = o[1].s
             /\ replacement_cache["MONEY"][o][1].r = o[1].r
             /\ (o[1].n2 = -1) = (replacement_cache["MONEY"][o][1].n2 = -1)
             /\ replacement_cache["MONEY"][o][1].n2 \in -1..99
        ELSE replacement_cache["MONEY"][o] = <<Lit("[REDACTED AMOUNT]")>>

\* C14: constructing the pipeline fails, before any document is processed, exactly when
\* none of the models tried is installed; the failure is never the outcome of a
\* pseudonymize call.
C14_NoModelFailsConstruction ==
    /\ (pc = "ConfigError") = (nlp.installed \cap Range(models_to_try) = {})
    /\ (pc = "ConfigError") = (nlp.model = "")
    /\ pc = "ConfigError" =>
          /\ calls = 0
          /\ env = NoEnv
          /\ all_entities = <<>>
          /\ result = NoResult

\* a construction has failed where no model is installed
C14_Witness ==
    /\ pc = "ConfigError"
    /\ nlp.installed = {}
    /\ calls = 0

\* the labels from the highest priority to the lowest
PriorityChain ==
    <<"LEGAL_PERSON", "PERSON", "ORG", "GPE", "FAC", "ADDRESS", "MONEY", "NUMBER", "DATE">>

\* the place of a label in PriorityChain
Rank(label) == CHOOSE i \in DOMAIN PriorityChain : PriorityChain[i] = label

\* the candidate wins over the accepted span it overlaps
Wins(entity, accepted) ==
    \/ Rank(entity.label) < Rank(accepted.label)
    \/ /\ Rank(entity.label) = Rank(accepted.label)
       /\ TextLen(entity.text, 0) > TextLen(accepted.text, 0)

\* the accepted list after the first k candidates in the order of their starts
AcceptedAfter(k) == ResolveAll(<<>>, SubSeq(SortedByStart(ov.in), 1, k), 0)

\* the accepted spans the k-th candidate overlaps
HitsOf(k) ==
    {i \in DOMAIN AcceptedAfter(k - 1) :
        /\ SortedByStart(ov.in)[k].start < AcceptedAfter(k - 1)[i].end
        /\ SortedByStart(ov.in)[k].end > AcceptedAfter(k - 1)[i].start}

\* C15: a candidate that overlaps an accepted span takes its place when its label is
\* strictly higher in LEGAL_PERSON > PERSON > ORG > GPE > FAC > ADDRESS > MONEY > NUMBER >
\* DATE, or when the labels are equal and its text is strictly longer; otherwise it is
\* dropped and the accepted list stays as it was; a candidate that overlaps no accepted
\* span is appended.
C15_ReplaceOnlyWhenStronger ==
    /\ \A i, j \in DOMAIN PriorityChain :
          (i < j) = (priority_order(PriorityChain[i]) < priority_order(PriorityChain[j]))
    /\ ov.done =>
          /\ ov.out = AcceptedAfter(Len(ov.in))
          /\ \A k \in DOMAIN ov.in :
                /\ HitsOf(k) = {} =>
                      AcceptedAfter(k) = Append(AcceptedAfter(k - 1), SortedByStart(ov.in)[k])
                /\ \A i \in HitsOf(k) :
                      AcceptedAfter(k) =
                          IF Wins(SortedByStart(ov.in)[k], AcceptedAfter(k - 1)[i])
                          THEN [AcceptedAfter(k - 1) EXCEPT ![i] = SortedByStart(ov.in)[k]]
                          ELSE AcceptedAfter(k - 1)

\* of three candidates, one was appended, one took the place of an accepted span by its
\* label, and one was dropped
C15_Witness ==
    /\ ov.done
    /\ Len(ov.in) = 3
    /\ \E k \in DOMAIN ov.in : \E i \in HitsOf(k) :
          /\ Rank(SortedByStart(ov.in)[k].label) < Rank(AcceptedAfter(k - 1)[i].label)
          /\ AcceptedAfter(k)[i] = SortedByStart(ov.in)[k]
    /\ \E k \in DOMAIN ov.in :
          /\ HitsOf(k) # {}
          /\ AcceptedAfter(k) = AcceptedAfter(k - 1)


\* how many times a span occurs in a list
Occurrences(entities, x) == Cardinality({i \in DOMAIN entities : entities[i] = x})

\* C16: every span of the list the overlap resolver returns is one of the candidates it was
\* given, as it was given and no more often than it was given, and the list is in
\* ascending order of start.
C16_SubListInStartOrder ==
    ov.done =>
        /\ \A i \in DOMAIN ov.out :
              /\ ov.out[i] \in Range(ov.in)
              /\ Occurrences(ov.out, ov.out[i]) <= Occurrences(ov.in, ov.out[i])
        /\ \A i, j \in DOMAIN ov.out : i < j => ov.out[i].start <= ov.out[j].start

\* candidates given out of start order, one of which took the place of an accepted span,
\* and two spans returned
C16_Witness ==
    /\ ov.done
    /\ Len(ov.out) >= 2
    /\ \E i, j \in DOMAIN ov.in : i < j /\ ov.in[i].start > ov.in[j].start
    /\ \E k \in DOMAIN ov.in :
          /\ HitsOf(k) # {}
          /\ AcceptedAfter(k) # AcceptedAfter(k - 1)


\* the steps a call may take from one phase to the next
PhaseOrder ==
    {<<"Idle", "Extracting">>, <<"Idle", "Done">>, <<"Extracting", "Extracting">>,
     <<"Extracting", "Resolving">>, <<"Resolving", "Preparing">>,
     <<"Preparing", "Substituting">>, <<"Substituting", "Done">>,
     <<"Substituting", "Raised">>, <<"Done", "Idle">>, <<"Raised", "Idle">>}

\* C17: a call goes through Extracting, Resolving, Preparing, Substituting and Done in this
\* order; the pseudonymizers are left alone (no prepare hook, no get_replacement) until
\* every extractor has finished and the resolver has returned; the span list is final when
\* the prepare hooks run; the prepare hooks write no replacement, and substitution starts
\* after them.
C17_PhasesInOrder ==
    [][/\ <<pc, pc'>> \in PhaseOrder
       /\ pc \in {"Idle", "Extracting", "Resolving"} =>
             UNCHANGED <<replacement_cache, counter, date_mapping, name_to_role_registry,
                         role_counters, current_entity, rng>>
       /\ pc \in {"Preparing", "Substituting"} => all_entities' = all_entities
       /\ pc = "Preparing" => UNCHANGED <<replacement_cache, counter, result>>
       /\ result' # result => pc \in {"Idle", "Substituting", "Done", "Raised"}]_vars

\* a call has gone through all phases: spans were found, a prepare hook has built the date
\* mapping and get_replacement has filled the cache
C17_Witness ==
    /\ pc = "Done"
    /\ all_entities # <<>>
    /\ DOMAIN date_mapping # {}
    /\ \E l \in DOMAIN replacement_cache : DOMAIN replacement_cache[l] # {}
    /\ result.text # text


\* the replacement get_replacement gave for an accepted span
RepOf(e) == replacement_cache[e.label][e.text]

\* the text from position pos on, read from left to right: what stands outside the spans as
\* it is, each span as its replacement
RECURSIVE Rebuilt(_, _)
Rebuilt(pos, entities) ==
    IF entities = <<>> THEN SubSeq(text.toks, pos + 1, Len(text.toks))
    ELSE SubSeq(text.toks, pos + 1, Head(entities).start) \o RepOf(Head(entities))
         \o Rebuilt(Head(entities).end, Tail(entities))

\* C18: the text a call returns is the text it was given with every accepted span replaced
\* by its replacement, and everything outside the accepted spans as it was and in the
\* order it was.
C18_OnlySpansRewritten ==
    (pc = "Done" /\ ~IsBlank(text)) =>
        /\ result.text.toks = Rebuilt(0, SortedByStart(all_entities))
        /\ result.text.gap = text.gap

\* two accepted spans, the left one replaced by a text of another length, and the call
\* has returned
C18_Witness ==
    /\ pc = "Done"
    /\ Len(all_entities) = 2
    /\ \E e \in Range(all_entities) :
          /\ e.start = 0
          /\ Len(RepOf(e)) # e.end - e.start
    /\ Len(result.text.toks) > Len(text.toks)


\* C19: the k-th distinct text given to one OrganizationPseudonymizer gets the letter number
\* (k - 1) mod 26 of A..Z, so the 27th gets A again; a text given once more does not
\* advance the counter, which stays the number of distinct texts.
C19_LettersInOrderOfFirstRequest ==
    /\ counter = Len(asked.first)
    /\ DOMAIN replacement_cache["ORG"] = Range(asked.first)
    /\ \A k \in DOMAIN asked.first :
          /\ replacement_cache["ORG"][asked.first[k]][1] = Lit("ORG")
          /\ replacement_cache["ORG"][asked.first[k]][2] = Letter((k - 1) % 26)
          /\ k = 27 => replacement_cache["ORG"][asked.first[k]][2] = Letter(0)

\* the 27th distinct text has got the letter A, and a text has then been given once more
C19_Witness ==
    /\ Len(asked.first) >= 27
    /\ asked.again
    /\ replacement_cache["ORG"][asked.first[27]][2] = Letter(0)
    /\ replacement_cache["ORG"][asked.first[26]][2] = Letter(25)

\* the corporate suffix an organization text is written with, "" when it has none of the list
SuffixWritten(txt) ==
    IF txt[1].k = "org" /\ (\E suffix \in corporate_suffixes : Lower(txt[1].r) = Lower(suffix))
    THEN txt[1].r ELSE ""

\* C20: a bank with a branch clause is rendered "Bank <Letter> <suffix>, Location <Letter>
\* Branch"; any other organization "ORG <Letter> <suffix>" with its suffix as written, or
\* "ORG <Letter>" when it has no suffix of the list.
C20_BankAndSuffixForms ==
    \A k \in DOMAIN asked.first :
        replacement_cache["ORG"][asked.first[k]] =
            IF asked.first[k] = BankWithBranch
            THEN <<Lit("Bank"), Letter((k - 1) % 26), Lit(SuffixWritten(asked.first[k]) \o ","),
                   Lit("Location"), Letter((k - 1) % 26), Lit("Branch")>>
            ELSE IF SuffixWritten(asked.first[k]) # ""
            THEN <<Lit("ORG"), Letter((k - 1) % 26), Lit(SuffixWritten(asked.first[k]))>>
            ELSE <<Lit("ORG"), Letter((k - 1) % 26)>>


WrittenValue(digits, places) == digits * Pow10(3 - places)

\* new is what the shared rule makes of a number written with places decimal places, old,
\* both as the digits without the point
ByTheRule(old, new, places) ==
    IF 0 < old /\ WrittenValue(old, places) <= 10000
    THEN /\ new \in {x * Pow10(places) : x \in 1..10}
         /\ new # old
    ELSE \E factor \in 850..1150 :
            new = RoundDiv(WrittenValue(old, places) * factor, Pow10(6 - places))

\* C22: in every branch of NumberPseudonymizer a value of 0 < v <= 10 is replaced by a
\* different integer of 1..10 and any other value by the value times a factor between 0.85
\* and 1.15, and the replacement has the shape and the number of decimal places of the
\* original.
C22_EveryBranchByTheRule ==
    \A o \in DOMAIN replacement_cache["NUMBER"] :
        LET old == o[1]
            new == replacement_cache["NUMBER"][o][1]
        IN  /\ new.k = "num"
            /\ new.r = old.r
            /\ new.s = old.s
            /\ IF old.r \in {"ratio", "fraction"}
               THEN ByTheRule(old.n1, new.n1, 0) /\ ByTheRule(old.n2, new.n2, 0)
               ELSE new.n2 = old.n2 /\ ByTheRule(old.n1, new.n1, old.n2)


\* the number an English number word stands for
WordValue(w) ==
    IF \E i \in 1..19 : ones[i + 1] = w THEN CHOOSE i \in 1..19 : ones[i + 1] = w
    ELSE IF \E t \in 2..9 : tens[t + 1] = w THEN 10 * (CHOOSE t \in 2..9 : tens[t + 1] = w)
    ELSE IF \E t \in 2..9, i \in 1..9 : tens[t + 1] \o "-" \o ones[i + 1] = w
    THEN CHOOSE n \in 21..99 :
            n % 10 # 0 /\ tens[(n \div 10) + 1] \o "-" \o ones[(n % 10) + 1] = w
    ELSE 0

\* the number a sequence of English number words denotes, read from left to right
RECURSIVE Denoted(_, _, _)
Denoted(words, total, current) ==
    IF words = <<>> THEN total + current
    ELSE CASE Head(words) = "Hundred" -> Denoted(Tail(words), total, current * 100)
           [] Head(words) = "Thousand" -> Denoted(Tail(words), total + current * 1000, 0)
           [] Head(words) = "Million" -> Denoted(Tail(words), total + current * 1000000, 0)
           [] Head(words) = "Billion" -> Denoted(Tail(words), total + current * 1000000000, 0)
           [] OTHER -> Denoted(Tail(words), total, current + WordValue(Head(words)))

\* C23: the words _number_to_written gives for an amount denote exactly that amount, from 0
\* up to the billions.
C23_WordsDenoteTheAmount ==
    written # <<>> => Denoted(written.words, 0, 0) = written.amount


\* the first of date_formats that parses the text: the format _parse_date stops at
FirstFormat(tok) ==
    CHOOSE i \in DOMAIN date_formats :
        /\ strptime(tok, date_formats[i]) # 0
        /\ \A j \in 1..(i - 1) : strptime(tok, date_formats[j]) = 0

\* C24: the replacement of a parseable date is written in the format of the original:
\* parsing it with the format that parsed the original succeeds and yields the mapped date.
C24_ReplacementInOriginalFormat ==
    \A o \in DOMAIN replacement_cache["DATE"] :
        (parse_date(o) # 0 /\ parse_date(o) \in DOMAIN date_mapping)
            => LET rep == replacement_cache["DATE"][o]
               IN  /\ Len(rep) = 1
                   /\ strptime(rep[1], date_formats[FirstFormat(o[1])])
                          = date_mapping[parse_date(o)]


\* the LEGAL_PERSON spans of the document whose text was asked for
AskedPersons == {i \in DOMAIN all_entities : all_entities[i].text \in DOMAIN replacement_cache["LEGAL_PERSON"]}

\* C25: every role-qualified mention is reduced to its bare name before it is registered
\* and hashed: the registry holds the lowercased bare name, and "Role Name" and
\* "Name (Role)" of one person and role get the same pseudonym, that of the bare name.
C25_MentionsReducedToBareName ==
    /\ \A i \in DOMAIN all_entities :
          all_entities[i].person
              => ODictHas(name_to_role_registry, Lower(all_entities[i].text[1].s))
    /\ \A i \in AskedPersons :
          replacement_cache["LEGAL_PERSON"][all_entities[i].text]
              = generate_hash_based_pseudonym(all_entities[i].text[1].s, all_entities[i].role)
    /\ \A i, j \in AskedPersons :
          (/\ all_entities[i].text[1].s = all_entities[j].text[1].s
           /\ all_entities[i].role = all_entities[j].role)
              => replacement_cache["LEGAL_PERSON"][all_entities[i].text]
                     = replacement_cache["LEGAL_PERSON"][all_entities[j].text]


\* C26: in every pseudonymize call on a pipeline object, the second and later ones as well,
\* any two parseable DATE spans of the document of the call are replaced by dates whose
\* day difference is that of the originals, also when one of the date texts occurred in a
\* document of an earlier call.
C26_IntervalsInLaterDocuments ==
    (pc = "Done" /\ calls >= 1) =>
        \A e1, e2 \in AcceptedOf("DATE") :
            (parse_date(e1.text) # 0 /\ parse_date(e2.text) # 0) =>
                parse_date(WrittenAt(e2)) - parse_date(WrittenAt(e1))
                    = parse_date(e2.text) - parse_date(e1.text)


\* C27: every candidate that is not in the list the overlap resolver returns overlaps a
\* span of that list.
C27_DroppedOverlapsAccepted ==
    ov.done =>
        \A i \in DOMAIN ov.in :
            ov.in[i] \notin Range(ov.out) => \E j \in DOMAIN ov.out : Overlap(ov.in[i], ov.out[j])


\* the text txt stands somewhere in the text rep
Embeds(rep, txt) == \E i \in 0..(Len(rep) - Len(txt)) : SubSeq(rep, i + 1, i + Len(txt)) = txt

\* C28: every accepted span is replaced by a text that is not its original text and does
\* not hold it.
C28_ReplacementHidesOriginal ==
    pc = "Done" =>
        \A e \in Range(all_entities) :
            e.label \in Range(Labels) => ~Embeds(WrittenAt(e), e.text)


\* C29: two different organization texts given to the pseudonymizer of one document never
\* get the same pseudonym, however many organizations there are.
C29_DistinctEntitiesDistinctPseudonyms ==
    \A k1, k2 \in DOMAIN asked.first :
        k1 # k2 => replacement_cache["ORG"][asked.first[k1]] # replacement_cache["ORG"][asked.first[k2]]


\* C30: the date mapping prepare builds keeps the order of the dates, so no two dates share
\* a mapped date, and maps the earliest date to a date at most 7300 days from 1 January
\* 2010.
C30_MappingKeepsOrder ==
    /\ \A d1, d2 \in DOMAIN date_mapping : d1 < d2 => date_mapping[d1] < date_mapping[d2]
    /\ \A d \in DOMAIN date_mapping :
          (\A other \in DOMAIN date_mapping : d <= other)
              => /\ date_mapping[d] - base_date <= 7300
                 /\ base_date - date_mapping[d] <= 7300

\* prepare has built the mapping of two dates, the earliest moved back by 7300 days
C30_Witness ==
    /\ Cardinality(DOMAIN date_mapping) = 2
    /\ Len(all_entities) = 2
    /\ \E d \in DOMAIN date_mapping : date_mapping[d] = base_date - 7300
    /\ \E d1, d2 \in DOMAIN date_mapping : d1 < d2 /\ date_mapping[d1] < date_mapping[d2]

====
